---- MODULE Spec2Model ----
(***************************************************************************)
(* A model of the chess component src/components/ChessApp.tsx (the first  *)
(* component of the file, lines 1-1435): the React state of ChessApp, its *)
(* click handler, movePiece, the AI fallback makeRandomMove with the two   *)
(* timers that lead to it, resetGame, undoMove and the game-mode buttons,  *)
(* the Stockfish worker's messages with the analysis state they feed, and  *)
(* the opening-statistics lookup.                                          *)
(*                                                                         *)
(* Rows and columns are 0..7 as in the source (row 0 is rank 8).  A piece  *)
(* is a one-letter string, "" is an empty square.  A nullable coordinate   *)
(* pair is <<>> when null; a nullable string is "null" when null.          *)
(***************************************************************************)
EXTENDS Integers, Sequences, FiniteSets, TLC

\* ------------------------------------------------------------------ bounds

\* Events the user and the timers may produce after the prepared line of a
\* scenario has been played out.
MaxFree == 2

\* Pending timer callbacks (setTimeout) at any one time.
MaxTimers == 1

\* After the prepared line, Math.random picks one of the first MaxPick
\* candidates of makeRandomMove.
MaxPick == 2

\* Analyses requested from the worker whose info lines may still arrive: the
\* most recent MaxAnalyses requests.
MaxAnalyses == 2

\* The multipv numbers of the info lines that arrive.
MaxPv == 2

\* The longest text drawn character by character for the notation.
MaxText == 4

\* ------------------------------------------------------------- basic values

Idx == 0..7

Null == <<>>

WhitePieces == {"K", "Q", "R", "B", "N", "P"}

BlackPieces == {"k", "q", "r", "b", "n", "p"}

\* String.prototype.toLowerCase on a piece letter.
toLowerCase(p) ==
    CASE p = "K" -> "k" [] p = "Q" -> "q" [] p = "R" -> "r"
      [] p = "B" -> "b" [] p = "N" -> "n" [] p = "P" -> "p"
      [] OTHER -> p

\* String.prototype.toUpperCase on a piece letter.
toUpperCase(p) ==
    CASE p = "k" -> "K" [] p = "q" -> "Q" [] p = "r" -> "R"
      [] p = "b" -> "B" [] p = "n" -> "N" [] p = "p" -> "P"
      [] OTHER -> p

\* piece === piece.toUpperCase()
IsUpper(p) == p = toUpperCase(p)

\* Math.abs
Abs(x) == IF x < 0 THEN -x ELSE x

Other(color) == IF color = "white" THEN "black" ELSE "white"

\* boardState[r][c].  A board is the sequence of its eight rows, each the
\* sequence of its eight squares; the source's indices 0..7 are kept.
Sq(boardState, r, c) == boardState[r + 1][c + 1]

\* boardState[r]?.[c]: undefined outside the array.
At(boardState, r, c) ==
    IF r \in Idx /\ c \in Idx THEN Sq(boardState, r, c) ELSE "undefined"

\* JavaScript truthiness of a square's content.
Truthy(x) == x # "" /\ x # "undefined"

\* The board with one square overwritten.
Put(boardState, r, c, p) == [boardState EXCEPT ![r + 1][c + 1] = p]

INITIAL_BOARD ==
    << <<"r", "n", "b", "q", "k", "b", "n", "r">>,
       <<"p", "p", "p", "p", "p", "p", "p", "p">>,
       <<"",  "",  "",  "",  "",  "",  "",  "">>,
       <<"",  "",  "",  "",  "",  "",  "",  "">>,
       <<"",  "",  "",  "",  "",  "",  "",  "">>,
       <<"",  "",  "",  "",  "",  "",  "",  "">>,
       <<"P", "P", "P", "P", "P", "P", "P", "P">>,
       <<"R", "N", "B", "Q", "K", "B", "N", "R">> >>

NoKingMoved == [white |-> FALSE, black |-> FALSE]

NoRookMoved ==
    [whiteKingSide |-> FALSE, whiteQueenSide |-> FALSE,
     blackKingSide |-> FALSE, blackQueenSide |-> FALSE]

\* ------------------------------------------------------------ move generator
\* A closure `env` carries the state a render's functions read besides their
\* arguments: enPassantTarget, kingMoved and rookMoved.

\* One ray of a rook, bishop or queen, starting at (r, c).
RECURSIVE Ray(_, _, _, _, _, _)
Ray(boardState, r, c, dr, dc, isWhite) ==
    IF ~(r \in Idx /\ c \in Idx) THEN <<>>
    ELSE IF ~Truthy(Sq(boardState, r, c))
         THEN <<<<r, c>>>> \o Ray(boardState, r + dr, c + dc, dr, dc, isWhite)
         ELSE IF isWhite # IsUpper(Sq(boardState, r, c)) THEN <<<<r, c>>>> ELSE <<>>

\* A knight's or king's step to (r, c), when it is on the board.
Step(boardState, r, c, isWhite) ==
    IF r \in Idx /\ c \in Idx
    THEN IF ~Truthy(Sq(boardState, r, c)) THEN <<<<r, c>>>>
         ELSE IF isWhite # IsUpper(Sq(boardState, r, c)) THEN <<<<r, c>>>> ELSE <<>>
    ELSE <<>>

Flatten(seqs) ==
    LET f[i \in 0..Len(seqs)] == IF i = 0 THEN <<>> ELSE f[i - 1] \o seqs[i]
    IN  f[Len(seqs)]

knightMoves ==
    << <<-2, -1>>, <<-2, 1>>, <<-1, -2>>, <<-1, 2>>,
       <<1, -2>>, <<1, 2>>, <<2, -1>>, <<2, 1>> >>

kingSteps ==
    << <<-1, -1>>, <<-1, 0>>, <<-1, 1>>, <<0, -1>>,
       <<0, 1>>, <<1, -1>>, <<1, 0>>, <<1, 1>> >>

rookDirs == << <<0, 1>>, <<0, -1>>, <<1, 0>>, <<-1, 0>> >>

bishopDirs == << <<1, 1>>, <<1, -1>>, <<-1, 1>>, <<-1, -1>> >>

\* PawnMoves as it would be if the two-square advance looked only at the
\* square it lands on.
PawnMovesJumping(env, boardState, row, col, isWhite) ==
    LET direction == IF isWhite THEN -1 ELSE 1
        forward ==
            (IF At(boardState, row + direction, col) = ""
             THEN <<<<row + direction, col>>>> ELSE <<>>) \o
            (IF ((isWhite /\ row = 6) \/ (~isWhite /\ row = 1))
                /\ At(boardState, row + 2 * direction, col) = ""
             THEN <<<<row + 2 * direction, col>>>> ELSE <<>>)
        diag(colOffset) ==
            LET targetPiece == At(boardState, row + direction, col + colOffset)
            IN  IF Truthy(targetPiece) /\ isWhite # IsUpper(targetPiece)
                THEN <<<<row + direction, col + colOffset>>>> ELSE <<>>
        enPassant ==
            IF env.enPassantTarget # Null
               /\ env.enPassantTarget[1] = row + direction
               /\ Abs(env.enPassantTarget[2] - col) = 1
            THEN <<<<env.enPassantTarget[1], env.enPassantTarget[2], 1>>>>
            ELSE <<>>
    IN  forward \o diag(-1) \o diag(1) \o enPassant

PawnMoves(env, boardState, row, col, isWhite) ==
    LET direction == IF isWhite THEN -1 ELSE 1
        forward ==
            IF At(boardState, row + direction, col) = ""
            THEN <<<<row + direction, col>>>> \o
                 (IF ((isWhite /\ row = 6) \/ (~isWhite /\ row = 1))
                     /\ At(boardState, row + 2 * direction, col) = ""
                  THEN <<<<row + 2 * direction, col>>>> ELSE <<>>)
            ELSE <<>>
        diag(colOffset) ==
            LET targetPiece == At(boardState, row + direction, col + colOffset)
            IN  IF Truthy(targetPiece) /\ isWhite # IsUpper(targetPiece)
                THEN <<<<row + direction, col + colOffset>>>> ELSE <<>>
        enPassant ==
            IF env.enPassantTarget # Null
               /\ env.enPassantTarget[1] = row + direction
               /\ Abs(env.enPassantTarget[2] - col) = 1
            THEN <<<<env.enPassantTarget[1], env.enPassantTarget[2], 1>>>>
            ELSE <<>>
    IN  forward \o diag(-1) \o diag(1) \o enPassant

CastlingMoves(env, boardState, isWhite) ==
    IF isWhite
    THEN (IF ~env.kingMoved.white /\ ~env.rookMoved.whiteKingSide
             /\ Sq(boardState, 7, 5) = "" /\ Sq(boardState, 7, 6) = "" /\ Sq(boardState, 7, 7) = "R"
          THEN <<<<7, 6>>>> ELSE <<>>)
         \o
         (IF ~env.kingMoved.white /\ ~env.rookMoved.whiteQueenSide
             /\ Sq(boardState, 7, 1) = "" /\ Sq(boardState, 7, 2) = "" /\ Sq(boardState, 7, 3) = ""
             /\ Sq(boardState, 7, 0) = "R"
          THEN <<<<7, 2>>>> ELSE <<>>)
    ELSE (IF ~env.kingMoved.black /\ ~env.rookMoved.blackKingSide
             /\ Sq(boardState, 0, 5) = "" /\ Sq(boardState, 0, 6) = "" /\ Sq(boardState, 0, 7) = "r"
          THEN <<<<0, 6>>>> ELSE <<>>)
         \o
         (IF ~env.kingMoved.black /\ ~env.rookMoved.blackQueenSide
             /\ Sq(boardState, 0, 1) = "" /\ Sq(boardState, 0, 2) = "" /\ Sq(boardState, 0, 3) = ""
             /\ Sq(boardState, 0, 0) = "r"
          THEN <<<<0, 2>>>> ELSE <<>>)

getValidMovesForBoard(env, boardState, row, col) ==
    LET piece == Sq(boardState, row, col)
        pieceType == toLowerCase(piece)
        isWhite == IsUpper(piece)
        rays(dirs) ==
            Flatten([i \in 1..Len(dirs) |->
                Ray(boardState, row + dirs[i][1], col + dirs[i][2],
                    dirs[i][1], dirs[i][2], isWhite)])
        steps(offs) ==
            Flatten([i \in 1..Len(offs) |->
                Step(boardState, row + offs[i][1], col + offs[i][2], isWhite)])
    IN  IF ~Truthy(piece) THEN <<>>
        ELSE (IF pieceType = "p" THEN PawnMoves(env, boardState, row, col, isWhite)
              ELSE <<>>)
             \o (IF pieceType = "n" THEN steps(knightMoves) ELSE <<>>)
             \o (IF pieceType \in {"r", "q"} THEN rays(rookDirs) ELSE <<>>)
             \o (IF pieceType \in {"b", "q"} THEN rays(bishopDirs) ELSE <<>>)
             \o (IF pieceType = "k"
                 THEN steps(kingSteps) \o CastlingMoves(env, boardState, isWhite)
                 ELSE <<>>)

\* ----------------------------------------------------------- attack detector

\* PieceAttacks as it would be if a rook or queen on the same row or column
\* attacked whatever stands between.
PieceAttacksThroughPieces(boardState, r, c, row, col) ==
    LET piece == Sq(boardState, r, c)
        pieceIsWhite == IsUpper(piece)
        pieceType == toLowerCase(piece)
        rowDiff == Abs(r - row)
        colDiff == Abs(c - col)
        rowDir == IF row > r THEN 1 ELSE -1
        colDir == IF col > c THEN 1 ELSE -1
    IN  CASE pieceType = "p" ->
               r + (IF pieceIsWhite THEN -1 ELSE 1) = row
               /\ (c - 1 = col \/ c + 1 = col)
          [] pieceType = "n" ->
               \E i \in 1..Len(knightMoves) :
                   r + knightMoves[i][1] = row /\ c + knightMoves[i][2] = col
          [] pieceType = "k" ->
               rowDiff <= 1 /\ colDiff <= 1 /\ rowDiff + colDiff > 0
          [] OTHER ->
               \/ /\ pieceType \in {"r", "q"}
                  /\ (r = row \/ c = col)
               \/ /\ pieceType \in {"b", "q"}
                  /\ rowDiff = colDiff /\ rowDiff > 0
                  /\ \A i \in 1..(rowDiff - 1) :
                         ~Truthy(Sq(boardState, r + rowDir * i, c + colDir * i))

\* Whether the piece on (r, c) attacks (row, col), as the scan's body decides.
PieceAttacks(boardState, r, c, row, col) ==
    LET piece == Sq(boardState, r, c)
        pieceIsWhite == IsUpper(piece)
        pieceType == toLowerCase(piece)
        lo(a, b) == IF a < b THEN a ELSE b
        hi(a, b) == IF a < b THEN b ELSE a
        rowDiff == Abs(r - row)
        colDiff == Abs(c - col)
        rowDir == IF row > r THEN 1 ELSE -1
        colDir == IF col > c THEN 1 ELSE -1
    IN  CASE pieceType = "p" ->
               r + (IF pieceIsWhite THEN -1 ELSE 1) = row
               /\ (c - 1 = col \/ c + 1 = col)
          [] pieceType = "n" ->
               \E i \in 1..Len(knightMoves) :
                   r + knightMoves[i][1] = row /\ c + knightMoves[i][2] = col
          [] pieceType = "k" ->
               rowDiff <= 1 /\ colDiff <= 1 /\ rowDiff + colDiff > 0
          [] OTHER ->
               \/ /\ pieceType \in {"r", "q"}
                  /\ \/ /\ r = row
                        /\ \A checkCol \in (lo(c, col) + 1)..(hi(c, col) - 1) :
                               ~Truthy(Sq(boardState, r, checkCol))
                     \/ /\ c = col
                        /\ \A checkRow \in (lo(r, row) + 1)..(hi(r, row) - 1) :
                               ~Truthy(Sq(boardState, checkRow, c))
               \/ /\ pieceType \in {"b", "q"}
                  /\ rowDiff = colDiff /\ rowDiff > 0
                  /\ \A i \in 1..(rowDiff - 1) :
                         ~Truthy(Sq(boardState, r + rowDir * i, c + colDir * i))

isSquareUnderAttack(boardState, row, col, byColor) ==
    \E r \in Idx, c \in Idx :
        /\ Truthy(Sq(boardState, r, c))
        /\ (IF IsUpper(Sq(boardState, r, c)) THEN "white" ELSE "black") = byColor
        /\ PieceAttacks(boardState, r, c, row, col)

isKingInCheck(boardState, color) ==
    LET kingPiece == IF color = "white" THEN "K" ELSE "k"
        found == {i \in 0..63 : Sq(boardState, i \div 8, i % 8) = kingPiece}
        first == CHOOSE i \in found : \A j \in found : i <= j
    IN  IF found = {} THEN FALSE
        ELSE isSquareUnderAttack(boardState, first \div 8, first % 8, Other(color))

\* The simulation shared by the legality filters: the piece is put on the
\* destination and its origin is emptied, nothing else.
testBoard(boardState, row, col, move) ==
    Put(Put(boardState, move[1], move[2], Sq(boardState, row, col)), row, col, "")

hasLegalMoves(env, boardState, color) ==
    \E row \in Idx, col \in Idx :
        /\ Truthy(Sq(boardState, row, col))
        /\ (IF IsUpper(Sq(boardState, row, col)) THEN "white" ELSE "black") = color
        /\ LET pseudoLegalMoves == getValidMovesForBoard(env, boardState, row, col)
           IN  \E i \in 1..Len(pseudoLegalMoves) :
                   ~isKingInCheck(testBoard(boardState, row, col, pseudoLegalMoves[i]),
                                  color)

isCheckmate(env, boardState, color) ==
    isKingInCheck(boardState, color) /\ ~hasLegalMoves(env, boardState, color)

isStalemate(env, boardState, color) ==
    ~isKingInCheck(boardState, color) /\ ~hasLegalMoves(env, boardState, color)

\* ------------------------------------------------------------ notation text
\* A UCI move is text; it is modelled as the sequence of its characters.

files == <<"a", "b", "c", "d", "e", "f", "g", "h">>

digits == <<"1", "2", "3", "4", "5", "6", "7", "8">>

\* `${files[fromCol]}${8 - fromRow}${files[toCol]}${8 - toRow}`
toUCI(fromRow, fromCol, toRow, toCol) ==
    <<files[fromCol + 1], digits[8 - fromRow], files[toCol + 1], digits[8 - toRow]>>

\* parseInt of a one-character rank.
parseInt(ch) == CHOOSE n \in 1..8 : digits[n] = ch

\* ch.charCodeAt(0) - 'a'.charCodeAt(0)
fileIndex(ch) == (CHOOSE n \in 1..8 : files[n] = ch) - 1

\* The four coordinates the history replay reads out of a move's text.
fromUCI(uci) ==
    [fromRow |-> 8 - parseInt(uci[2]), fromCol |-> fileIndex(uci[1]),
     toRow |-> 8 - parseInt(uci[4]), toCol |-> fileIndex(uci[3])]

\* One pass of the replay loop of the move-history panel.
replayStep(boardState, pastMove) ==
    LET at == fromUCI(pastMove)
        promotion == IF Len(pastMove) > 4 THEN pastMove[5] ELSE ""
        moving == Sq(boardState, at.fromRow, at.fromCol)
        movingPiece ==
            IF toUpperCase(moving) = "P" /\ promotion # ""
            THEN (IF moving = toUpperCase(moving) THEN toUpperCase(promotion)
                  ELSE toLowerCase(promotion))
            ELSE moving
    IN  Put(Put(boardState, at.toRow, at.toCol, movingPiece), at.fromRow, at.fromCol, "")

\* boardState after the replay loop has run over the first i moves.
replay(history, i) ==
    LET boardState[j \in 0..i] ==
            IF j = 0 THEN INITIAL_BOARD ELSE replayStep(boardState[j - 1], history[j])
    IN  boardState[i]

\* The digits (codes 48 to 57), the capital letters (65 to 90) and the small
\* letters (97 to 122), each in code order.
DigitChars == <<"0", "1", "2", "3", "4", "5", "6", "7", "8", "9">>

CapitalChars ==
    << "A", "B", "C", "D", "E", "F", "G", "H", "I", "J", "K", "L", "M",
       "N", "O", "P", "Q", "R", "S", "T", "U", "V", "W", "X", "Y", "Z" >>

SmallChars ==
    << "a", "b", "c", "d", "e", "f", "g", "h", "i", "j", "k", "l", "m",
       "n", "o", "p", "q", "r", "s", "t", "u", "v", "w", "x", "y", "z" >>

\* ch.charCodeAt(0), for a digit or a letter.
charCodeAt(ch) ==
    IF \E n \in 1..10 : DigitChars[n] = ch
    THEN 47 + (CHOOSE n \in 1..10 : DigitChars[n] = ch)
    ELSE IF \E n \in 1..26 : CapitalChars[n] = ch
    THEN 64 + (CHOOSE n \in 1..26 : CapitalChars[n] = ch)
    ELSE 96 + (CHOOSE n \in 1..26 : SmallChars[n] = ch)

\* text[i] of JavaScript, i counted from 0: undefined past the end.
CharAt(text, i) == IF i + 1 <= Len(text) THEN text[i + 1] ELSE "undefined"

\* text.substring(from, to)
substring(text, from, to) ==
    SubSeq(text, from + 1, IF to <= Len(text) THEN to ELSE Len(text))

\* What a call of uciToAlgebraicWithBoard ends with: the text it returns, or
\* the TypeError it throws.
Returned(text) == [threw |-> FALSE, notation |-> text]

TypeError == [threw |-> TRUE, notation |-> <<>>]

\* The notation of a move of the given board, for the move list and the
\* top-moves panel; env is the render whose isCheckmate is called.
uciToAlgebraicWithBoard(env, uciMove, boardState, nextPlayer) ==
    LET toSquare == substring(uciMove, 2, 4)
        promotion == IF Len(uciMove) > 4 THEN toUpperCase(uciMove[5]) ELSE ""
        fromCol == CharAt(uciMove, 0)
        fromRow == CharAt(uciMove, 1)
        toCol == CharAt(uciMove, 2)
        toRow == CharAt(uciMove, 3)
        onFrom == (\E n \in 1..8 : digits[n] = fromRow) /\ (\E n \in 1..8 : files[n] = fromCol)
        onTo == (\E n \in 1..8 : digits[n] = toRow) /\ (\E n \in 1..8 : files[n] = toCol)
        rowIndex == 8 - parseInt(fromRow)
        colIndex == fileIndex(fromCol)
        toRowIndex == 8 - parseInt(toRow)
        toColIndex == fileIndex(toCol)
        piece == IF onFrom THEN Sq(boardState, rowIndex, colIndex) ELSE ""
        targetSquare == IF onTo THEN Sq(boardState, toRowIndex, toColIndex) ELSE "undefined"
        isEnPassant == /\ toUpperCase(piece) = "P"
                       /\ onTo
                       /\ Abs(colIndex - toColIndex) = 1
                       /\ targetSquare = ""
        isCapture == targetSquare # "" \/ isEnPassant
        colDiff == charCodeAt(toCol) - charCodeAt(fromCol)
        movingPiece == IF toUpperCase(piece) = "P" /\ promotion # ""
                       THEN (IF IsUpper(piece) THEN promotion ELSE toLowerCase(promotion))
                       ELSE piece
        emptied == Put(boardState, rowIndex, colIndex, "")
        simulated == IF onTo THEN Put(emptied, toRowIndex, toColIndex, movingPiece)
                     ELSE emptied
        opponentInCheck == isKingInCheck(simulated, nextPlayer)
        opponentIsCheckmated == opponentInCheck /\ isCheckmate(env, simulated, nextPlayer)
        suffix == IF opponentIsCheckmated THEN <<"#">>
                  ELSE IF opponentInCheck THEN <<"+">> ELSE <<>>
    IN  IF fromCol = "undefined" \/ toCol = "undefined" THEN TypeError
        ELSE IF toUpperCase(piece) = "K" /\ Abs(colDiff) = 2
        THEN Returned(IF colDiff > 0 THEN <<"O", "-", "O">>
                      ELSE <<"O", "-", "O", "-", "O">>)
        ELSE IF ~onFrom THEN TypeError
        ELSE IF ~(\E n \in 1..8 : digits[n] = toRow) THEN TypeError
        ELSE IF toUpperCase(piece) = "P"
        THEN Returned((IF isCapture THEN <<fromCol, "x">> \o toSquare ELSE toSquare)
                      \o (IF promotion # "" THEN <<"=", promotion>> ELSE <<>>)
                      \o suffix)
        ELSE Returned((IF piece = "" THEN <<>> ELSE <<toUpperCase(piece)>>)
                      \o (IF isCapture THEN <<"x">> ELSE <<>>)
                      \o toSquare \o suffix)

\* ---------------------------------------------------------------------- FEN
\* A FEN is text; it is modelled as the sequence of its characters.

\* The pieces of a text between the occurrences of a separator.
Split(text, sep) ==
    LET cuts == {0, Len(text) + 1} \cup {i \in 1..Len(text) : text[i] = sep}
        cut(k) == CHOOSE c \in cuts : Cardinality({d \in cuts : d < c}) = k - 1
    IN  [k \in 1..(Cardinality(cuts) - 1) |-> SubSeq(text, cut(k) + 1, cut(k + 1) - 1)]

\* The rank loop without its closing `if (emptyCount > 0) fen += emptyCount`.
rankTextWithoutTrailingRun(rowSeq) ==
    LET scan[i \in 0..Len(rowSeq)] ==
            IF i = 0 THEN [fen |-> <<>>, emptyCount |-> 0]
            ELSE LET prev == scan[i - 1]
                     piece == rowSeq[i]
                 IN  IF piece = ""
                     THEN [fen |-> prev.fen, emptyCount |-> prev.emptyCount + 1]
                     ELSE [fen |-> prev.fen
                                   \o (IF prev.emptyCount > 0
                                       THEN <<digits[prev.emptyCount]>> ELSE <<>>)
                                   \o <<piece>>,
                           emptyCount |-> 0]
    IN  scan[Len(rowSeq)].fen \o <<"/">>

\* One pass of boardToFEN's outer loop: the text of a rank followed by '/'.
\* `fen += emptyCount` appends the decimal text of a count between 1 and 8.
rankText(rowSeq) ==
    LET scan[i \in 0..Len(rowSeq)] ==
            IF i = 0 THEN [fen |-> <<>>, emptyCount |-> 0]
            ELSE LET prev == scan[i - 1]
                     piece == rowSeq[i]
                 IN  IF piece = ""
                     THEN [fen |-> prev.fen, emptyCount |-> prev.emptyCount + 1]
                     ELSE [fen |-> prev.fen
                                   \o (IF prev.emptyCount > 0
                                       THEN <<digits[prev.emptyCount]>> ELSE <<>>)
                                   \o <<piece>>,
                           emptyCount |-> 0]
        last == scan[Len(rowSeq)]
    IN  last.fen \o (IF last.emptyCount > 0 THEN <<digits[last.emptyCount]>> ELSE <<>>)
        \o <<"/">>

\* boardToFEN over the board and the side to move of the render it closes over.
boardToFEN(boardState, player) ==
    LET withSlash == Flatten([r \in 1..Len(boardState) |-> rankText(boardState[r])])
        fen == SubSeq(withSlash, 1, Len(withSlash) - 1)
    IN  fen \o <<" ", (IF player = "white" THEN "w" ELSE "b"), " ",
                 "K", "Q", "k", "q", " ", "-", " ", "0", " ", "1">>

\* ---------------------------------------------------------------- the state

VARIABLES
    board,            \* useState<Board>(INITIAL_BOARD)
    selectedSquare,   \* <<row, col>> or Null
    validMoves,       \* the moves offered for the selected piece
    currentPlayer,    \* "white" or "black"
    moveHistory,      \* sequence of UCI moves
    gameResult,       \* "1-0", "0-1", "1/2-1/2" or "null"
    gameMode,         \* "human", "ai" or "trainer"
    kingMoved,        \* [white, black]
    rookMoved,        \* [whiteKingSide, whiteQueenSide, blackKingSide, blackQueenSide]
    enPassantTarget,  \* <<row, col>> or Null
    initialBoardArray, \* the contents of the array the constant INITIAL_BOARD names
    stockfishRef,     \* TRUE when a worker was created, FALSE when the ref is null
    sentFen,          \* the FEN of getStockfishMove's last `position fen` message
    sfTimers,         \* pending setTimeout(getStockfishMove, 500) callbacks
    rndTimers,        \* pending setTimeout(makeRandomMove, 1000) callbacks
    stockfishReady,   \* useState(false), true once 'uciok' has arrived
    currentAnalysisFEN, \* useRef(''): the FEN of evaluateAllMoves' last request
    analyses,         \* requests to the worker whose info lines may still arrive
    currentEvaluation, \* useState<number>(0)
    bestMoveEval,     \* Null or <<eval>>
    topMoves,         \* sequence of [move, eval]
    moveEvaluations,  \* function from UCI moves to centipawn losses
    topMovesPanel,    \* the lines of the "Top 3 Moves" panel as last rendered
    openingInfo,      \* Null, or the statistics: the move list they were fetched for
    loadingOpening,   \* useState(false)
    fetches,          \* the move lists of the calls of fetch() that have not settled
    lastOp,           \* the operation that produced this state
    script,           \* the events of the scenario's prepared line still to come
    free              \* events produced after the prepared line

vars ==
    <<board, selectedSquare, validMoves, currentPlayer, moveHistory, gameResult,
      gameMode, kingMoved, rookMoved, enPassantTarget, initialBoardArray, stockfishRef,
      sentFen, sfTimers,
      rndTimers, stockfishReady, currentAnalysisFEN, analyses, currentEvaluation,
      bestMoveEval, topMoves, moveEvaluations, topMovesPanel, openingInfo,
      loadingOpening, fetches, lastOp, script, free>>

game ==
    <<board, selectedSquare, validMoves, currentPlayer, moveHistory, gameResult,
      kingMoved, rookMoved, enPassantTarget>>

timers == <<sfTimers, rndTimers>>

opening == <<openingInfo, loadingOpening, fetches>>

analysis ==
    <<currentAnalysisFEN, analyses, currentEvaluation, bestMoveEval, topMoves,
      moveEvaluations, topMovesPanel>>

\* What the functions of the current render read from its closure.
CurrentEnv ==
    [enPassantTarget |-> enPassantTarget, kingMoved |-> kingMoved,
     rookMoved |-> rookMoved, board |-> board, currentPlayer |-> currentPlayer]

isCurrentPlayerPiece(piece) ==
    IF ~Truthy(piece) THEN FALSE
    ELSE IF currentPlayer = "white" THEN piece = toUpperCase(piece)
    ELSE piece = toLowerCase(piece)

\* The legality filter over an explicit render: the pseudo-legal moves whose
\* simulation does not leave the mover's king in check.
FilterLegal(env, boardState, row, col) ==
    LET pseudoLegalMoves == getValidMovesForBoard(env, boardState, row, col)
        piece == Sq(boardState, row, col)
        pieceColor == IF IsUpper(piece) THEN "white" ELSE "black"
        keep(move) == ~isKingInCheck(testBoard(boardState, row, col, move), pieceColor)
    IN  IF ~Truthy(piece) THEN <<>> ELSE SelectSeq(pseudoLegalMoves, keep)

getValidMoves(row, col) == FilterLegal(CurrentEnv, board, row, col)

\* --------------------------------------------------------- the environment
\* A scenario is a prepared line of events, played out from the initial
\* position; when it is over, up to MaxFree further events of any kind follow.
\* An event is <<"click", row, col>>, <<"mode", m>>, <<"reset">>, <<"undo">>,
\* <<"sf">> (the 500 ms timer fires), <<"ai", fromRow, fromCol, toRow, toCol>>
\* (the 1000 ms timer fires and Math.random picks that move), <<"uciok">>,
\* <<"info", k, pvIndex, centipawns>> (an info line of the worker) or
\* <<"fetch", k, outcome>> (the k-th pending fetch of the opening statistics
\* settles).

SameEvent(a, b) ==
    /\ Len(a) = Len(b)
    /\ a[1] = b[1]
    /\ \A i \in 2..Len(a) : a[i] = b[i]

Permit(e) ==
    IF script # <<>> THEN SameEvent(Head(script), e) ELSE free < MaxFree

\* A message of the worker or the settling of a fetch: in the prepared line,
\* or as the last of the events that follow it.
PermitMessage(e) ==
    IF script # <<>> THEN SameEvent(Head(script), e) ELSE free = MaxFree - 1

Consume ==
    /\ script' = IF script # <<>> THEN Tail(script) ELSE script
    /\ free' = IF script # <<>> THEN free ELSE free + 1

PendingTimers == Len(sfTimers) + Len(rndTimers)

\* A timer callback is no input of the user: during the prepared line it runs
\* where the line places it, afterwards whenever it is pending.
PermitTimer(e) == IF script = <<>> THEN TRUE ELSE SameEvent(Head(script), e)

ConsumeTimer ==
    /\ script' = IF script # <<>> THEN Tail(script) ELSE script
    /\ free' = free

\* ------------------------------------------------ analysis and opening state

\* The values of the analysis and opening state in the first render.
FirstRender ==
    /\ stockfishReady = FALSE
    /\ currentAnalysisFEN = <<>>
    /\ analyses = <<>>
    /\ currentEvaluation = 0
    /\ bestMoveEval = Null
    /\ topMoves = <<>>
    /\ moveEvaluations = <<>>
    /\ topMovesPanel = <<>>
    /\ openingInfo = Null
    /\ loadingOpening = FALSE
    /\ fetches = <<>>

\* The scores (score cp) the info lines carry.
Centipawns == {50, -250}

\* The position a FEN of boardToFEN describes to the engine: no en-passant
\* target, every castling flag unset.
FenEnv(boardState, player) ==
    [enPassantTarget |-> Null, kingMoved |-> NoKingMoved, rookMoved |-> NoRookMoved,
     board |-> boardState, currentPlayer |-> player]

\* Up to MaxPv moves of a piece of the side to move that has a legal move, as
\* UCI text: the moves the pv of an info line about the position can begin
\* with.
pvMoves(boardState, player) ==
    LET movesAt(i) ==
            LET row == (i - 1) \div 8
                col == (i - 1) % 8
                piece == Sq(boardState, row, col)
            IN  IF Truthy(piece)
                   /\ (IF IsUpper(piece) THEN "white" ELSE "black") = player
                THEN FilterLegal(FenEnv(boardState, player), boardState, row, col)
                ELSE <<>>
    IN  IF \E i \in 1..64 : movesAt(i) # <<>>
        THEN LET i == CHOOSE j \in 1..64 : movesAt(j) # <<>>
                 moves == movesAt(i)
             IN  [n \in 1..(IF Len(moves) < MaxPv THEN Len(moves) ELSE MaxPv) |->
                     toUCI((i - 1) \div 8, (i - 1) % 8, moves[n][1], moves[n][2])]
        ELSE <<>>

\* `position fen ...` followed by `go`: a request to the worker.
Analysis(boardState, player) ==
    [fen |-> boardToFEN(boardState, player), moves |-> pvMoves(boardState, player)]

\* The requests in flight after one more was posted.
Post(inFlight, request) ==
    LET all == Append(inFlight, request)
    IN  IF Len(all) > MaxAnalyses THEN Tail(all) ELSE all

\* The record of centipawn losses built from the entries of moves at the
\* given positions: bestEval - eval, a later entry of a move replacing an
\* earlier one.
losses(moves, positions) ==
    LET bestEval == moves[1].eval
        last(text) == CHOOSE i \in positions :
                          /\ moves[i].move = text
                          /\ \A j \in positions : moves[j].move = text => j <= i
    IN  [text \in {moves[i].move : i \in positions} |-> bestEval - moves[last(text)].eval]

\* The colour-coding effect for a selected piece: the losses of the top moves
\* that start on its square.
newEvals(selected, moves) ==
    LET fromSquareUCI == <<files[selected[2] + 1], digits[8 - selected[1]]>>
    IN  losses(moves, {i \in 1..Len(moves) : SubSeq(moves[i].move, 1, 2) = fromSquareUCI})

\* uciToAlgebraic: the notation of a move on the board of a render.
uciToAlgebraic(env, uciMove) ==
    uciToAlgebraicWithBoard(env, uciMove, env.board, env.currentPlayer)

\* The lines of the "Top 3 Moves" panel of a render.
renderTopMoves(env, mode, moves) ==
    IF mode = "trainer" /\ Len(moves) > 0
    THEN [i \in 1..(IF Len(moves) < 3 THEN Len(moves) ELSE 3) |->
             uciToAlgebraic(env, moves[i].move)]
    ELSE <<>>

\* The closure of the next render.
NextEnv ==
    [enPassantTarget |-> enPassantTarget', kingMoved |-> kingMoved',
     rookMoved |-> rookMoved', board |-> board', currentPlayer |-> currentPlayer']

\* fetchOpeningInfo up to its call of fetch. (The gameResult it reads is the
\* one of the render that made the move, which is null.)
fetchOpeningInfo(moves) ==
    IF Len(moves) = 0 \/ Len(moves) > 20
    THEN UNCHANGED opening
    ELSE /\ loadingOpening' = TRUE
         /\ fetches' = Append(fetches, moves)
         /\ UNCHANGED openingInfo

\* What the effects of the next render do to the analysis state, posted being
\* the requests in flight when the handler returns: evaluateAllMoves when
\* the position, the mode, the engine's readiness or the selection changed
\* and no piece is selected, the colour coding when a piece is selected.
Effects(posted) ==
    /\ IF /\ stockfishRef
          /\ gameMode' \in {"trainer", "ai"}
          /\ stockfishReady'
          /\ selectedSquare' = Null
          /\ <<board', currentPlayer', gameMode', stockfishReady', selectedSquare'>>
             # <<board, currentPlayer, gameMode, stockfishReady, selectedSquare>>
       THEN /\ currentAnalysisFEN' = boardToFEN(board', currentPlayer')
            /\ analyses' = Post(posted, Analysis(board', currentPlayer'))
            /\ moveEvaluations' = <<>>
            /\ topMoves' = <<>>
            /\ bestMoveEval' = Null
            /\ UNCHANGED currentEvaluation
       ELSE /\ analyses' = posted
            /\ moveEvaluations' =
                   IF /\ gameMode' = "trainer"
                      /\ stockfishReady'
                      /\ selectedSquare' # Null
                      /\ Len(topMoves) > 0
                      /\ <<selectedSquare', gameMode', stockfishReady'>>
                         # <<selectedSquare, gameMode, stockfishReady>>
                   THEN newEvals(selectedSquare', topMoves)
                   ELSE moveEvaluations
            /\ UNCHANGED <<currentAnalysisFEN, currentEvaluation, bestMoveEval, topMoves>>
    /\ topMovesPanel' = renderTopMoves(NextEnv, gameMode', topMoves')

\* ------------------------------------------------------------- operations

\* movePiece's new board without `newBoard[fromRow][fromCol] = ''`.
movedBoardKeepingOrigin(fromRow, fromCol, toRow, toCol, castleType, isEnPassant) ==
    Put(board, toRow, toCol, Sq(board, fromRow, fromCol))

\* movePiece's new board.
movedBoard(fromRow, fromCol, toRow, toCol, castleType, isEnPassant) ==
    LET piece == Sq(board, fromRow, fromCol)
        plain == Put(Put(board, toRow, toCol, piece), fromRow, fromCol, "")
        pieceType == toLowerCase(piece)
        isWhite == IsUpper(piece)
    IN  IF castleType = "castle-kingside"
        THEN Put(Put(plain, toRow, 5, Sq(plain, toRow, 7)), toRow, 7, "")
        ELSE IF castleType = "castle-queenside"
        THEN Put(Put(plain, toRow, 3, Sq(plain, toRow, 0)), toRow, 0, "")
        ELSE IF isEnPassant
        THEN Put(plain, fromRow, toCol, "")
        ELSE IF pieceType = "p" /\ isWhite /\ toRow = 0 THEN Put(plain, toRow, toCol, "Q")
        ELSE IF pieceType = "p" /\ ~isWhite /\ toRow = 7 THEN Put(plain, toRow, toCol, "q")
        ELSE plain

\* The result movePiece records: decided by the functions of the render in
\* which the click happened.
decidedResult(newBoard, nextPlayer) ==
    IF isCheckmate(CurrentEnv, newBoard, nextPlayer)
    THEN (IF currentPlayer = "white" THEN "1-0" ELSE "0-1")
    ELSE IF isStalemate(CurrentEnv, newBoard, nextPlayer) THEN "1/2-1/2"
    ELSE gameResult

\* movePiece as it would be if it wrote the move into the array of the board
\* state instead of a copy: into INITIAL_BOARD when the state still is that
\* array.
movePieceInPlace(fromRow, fromCol, toRow, toCol, castleType, isEnPassant) ==
    LET newBoard == movedBoard(fromRow, fromCol, toRow, toCol, castleType, isEnPassant)
        piece == Sq(board, fromRow, fromCol)
        pieceType == toLowerCase(piece)
        isWhite == IsUpper(piece)
        move == toUCI(fromRow, fromCol, toRow, toCol)
                \o (IF pieceType = "p"
                       /\ ((isWhite /\ toRow = 0) \/ (~isWhite /\ toRow = 7))
                    THEN <<"q">> ELSE <<>>)
        nextPlayer == IF currentPlayer = "white" THEN "black" ELSE "white"
    IN  /\ board' = newBoard
        /\ initialBoardArray' = IF board = initialBoardArray THEN newBoard
                               ELSE initialBoardArray
        /\ enPassantTarget' =
               IF pieceType = "p" /\ Abs(toRow - fromRow) = 2
               THEN <<(IF isWhite THEN fromRow - 1 ELSE fromRow + 1), fromCol>>
               ELSE Null
        /\ kingMoved' =
               IF pieceType = "k"
               THEN (IF isWhite THEN [kingMoved EXCEPT !.white = TRUE]
                     ELSE [kingMoved EXCEPT !.black = TRUE])
               ELSE kingMoved
        /\ rookMoved' =
               IF pieceType # "r" THEN rookMoved
               ELSE IF isWhite
               THEN (IF fromRow = 7 /\ fromCol = 0
                     THEN [rookMoved EXCEPT !.whiteQueenSide = TRUE]
                     ELSE IF fromRow = 7 /\ fromCol = 7
                     THEN [rookMoved EXCEPT !.whiteKingSide = TRUE]
                     ELSE rookMoved)
               ELSE (IF fromRow = 0 /\ fromCol = 0
                     THEN [rookMoved EXCEPT !.blackQueenSide = TRUE]
                     ELSE IF fromRow = 0 /\ fromCol = 7
                     THEN [rookMoved EXCEPT !.blackKingSide = TRUE]
                     ELSE rookMoved)
        /\ moveHistory' = Append(moveHistory, move)
        /\ currentPlayer' = nextPlayer
        /\ gameResult' = decidedResult(newBoard, nextPlayer)
        /\ sfTimers' =
               IF gameMode = "ai" /\ nextPlayer = "black"
               THEN Append(sfTimers, CurrentEnv) ELSE sfTimers

movePiece(fromRow, fromCol, toRow, toCol, castleType, isEnPassant) ==
    LET newBoard == movedBoard(fromRow, fromCol, toRow, toCol, castleType, isEnPassant)
        piece == Sq(board, fromRow, fromCol)
        pieceType == toLowerCase(piece)
        isWhite == IsUpper(piece)
        move == toUCI(fromRow, fromCol, toRow, toCol)
                \o (IF pieceType = "p"
                       /\ ((isWhite /\ toRow = 0) \/ (~isWhite /\ toRow = 7))
                    THEN <<"q">> ELSE <<>>)
        nextPlayer == IF currentPlayer = "white" THEN "black" ELSE "white"
    IN  /\ board' = newBoard
        /\ UNCHANGED initialBoardArray
        /\ enPassantTarget' =
               IF pieceType = "p" /\ Abs(toRow - fromRow) = 2
               THEN <<(IF isWhite THEN fromRow - 1 ELSE fromRow + 1), fromCol>>
               ELSE Null
        /\ kingMoved' =
               IF pieceType = "k"
               THEN (IF isWhite THEN [kingMoved EXCEPT !.white = TRUE]
                     ELSE [kingMoved EXCEPT !.black = TRUE])
               ELSE kingMoved
        /\ rookMoved' =
               IF pieceType # "r" THEN rookMoved
               ELSE IF isWhite
               THEN (IF fromRow = 7 /\ fromCol = 0
                     THEN [rookMoved EXCEPT !.whiteQueenSide = TRUE]
                     ELSE IF fromRow = 7 /\ fromCol = 7
                     THEN [rookMoved EXCEPT !.whiteKingSide = TRUE]
                     ELSE rookMoved)
               ELSE (IF fromRow = 0 /\ fromCol = 0
                     THEN [rookMoved EXCEPT !.blackQueenSide = TRUE]
                     ELSE IF fromRow = 0 /\ fromCol = 7
                     THEN [rookMoved EXCEPT !.blackKingSide = TRUE]
                     ELSE rookMoved)
        /\ moveHistory' = Append(moveHistory, move)
        /\ currentPlayer' = nextPlayer
        /\ gameResult' = decidedResult(newBoard, nextPlayer)
        /\ sfTimers' =
               IF gameMode = "ai" /\ nextPlayer = "black"
               THEN Append(sfTimers, CurrentEnv) ELSE sfTimers

\* validMoves.find(m => m[0] === row && m[1] === col)
findMove(moves, row, col) ==
    LET hits == {i \in 1..Len(moves) : moves[i][1] = row /\ moves[i][2] = col}
    IN  IF hits = {} THEN Null
        ELSE moves[CHOOSE i \in hits : \A j \in hits : i <= j]

\* typeof move[2] === 'string' ? move[2] : undefined
castleTypeOf(move) ==
    IF Len(move) >= 3 /\ move[3] # 1 THEN move[3] ELSE "undefined"

\* (move as any)[2] === 1
isEnPassantOf(move) == Len(move) >= 3 /\ move[3] = 1

handleSquareClick(row, col) ==
    /\ Permit(<<"click", row, col>>)
    /\ Consume
    /\ UNCHANGED <<gameMode, stockfishRef, sentFen, rndTimers, stockfishReady>>
    /\ IF gameResult # "null" \/ (gameMode = "ai" /\ currentPlayer = "black")
       THEN UNCHANGED <<game, initialBoardArray, sfTimers, lastOp>>
       ELSE IF selectedSquare # Null /\ findMove(validMoves, row, col) # Null
       THEN LET move == findMove(validMoves, row, col)
            IN  /\ (gameMode = "ai" /\ currentPlayer = "white")
                       => PendingTimers < MaxTimers
                /\ movePiece(selectedSquare[1], selectedSquare[2], row, col,
                             castleTypeOf(move), isEnPassantOf(move))
                /\ selectedSquare' = Null
                /\ validMoves' = <<>>
                /\ lastOp' = "movePiece"
       ELSE /\ IF Truthy(Sq(board, row, col)) /\ isCurrentPlayerPiece(Sq(board, row, col))
               THEN /\ selectedSquare' = <<row, col>>
                    /\ validMoves' = getValidMoves(row, col)
               ELSE /\ selectedSquare' = Null
                    /\ validMoves' = <<>>
            /\ lastOp' = "select"
            /\ UNCHANGED <<board, initialBoardArray, currentPlayer, moveHistory,
                           gameResult, kingMoved, rookMoved, enPassantTarget, sfTimers>>
    /\ IF moveHistory' # moveHistory THEN fetchOpeningInfo(moveHistory')
       ELSE UNCHANGED opening
    /\ Effects(analyses)

\* resetGame without its setEnPassantTarget(null).
resetKeepingEnPassantTarget ==
    /\ board' = initialBoardArray
    /\ selectedSquare' = Null
    /\ validMoves' = <<>>
    /\ currentPlayer' = "white"
    /\ moveHistory' = <<>>
    /\ openingInfo' = Null
    /\ gameResult' = "null"
    /\ enPassantTarget' = enPassantTarget
    /\ kingMoved' = NoKingMoved
    /\ rookMoved' = NoRookMoved

\* The state resetGame sets.
reset ==
    /\ board' = initialBoardArray
    /\ selectedSquare' = Null
    /\ validMoves' = <<>>
    /\ currentPlayer' = "white"
    /\ moveHistory' = <<>>
    /\ openingInfo' = Null
    /\ gameResult' = "null"
    /\ enPassantTarget' = Null
    /\ kingMoved' = NoKingMoved
    /\ rookMoved' = NoRookMoved

resetGame ==
    /\ Permit(<<"reset">>)
    /\ Consume
    /\ reset
    /\ lastOp' = "resetGame"
    /\ UNCHANGED <<gameMode, stockfishRef, initialBoardArray, sentFen, sfTimers, rndTimers, stockfishReady,
                   loadingOpening, fetches>>
    /\ Effects(analyses)

undoMove ==
    /\ Permit(<<"undo">>)
    /\ Consume
    /\ IF Len(moveHistory) = 0
       THEN UNCHANGED <<game, lastOp, openingInfo>>
       ELSE reset /\ lastOp' = "resetGame"
    /\ UNCHANGED <<gameMode, stockfishRef, initialBoardArray, sentFen, sfTimers, rndTimers, stockfishReady,
                   loadingOpening, fetches>>
    /\ Effects(analyses)

\* The three game-mode buttons.
setGameMode(mode) ==
    /\ Permit(<<"mode", mode>>)
    /\ Consume
    /\ gameMode' = mode
    /\ IF mode = "trainer" \/ (mode = "ai" /\ currentPlayer = "black")
       THEN reset /\ lastOp' = "resetGame"
       ELSE UNCHANGED <<game, openingInfo>> /\ lastOp' = "setGameMode"
    /\ UNCHANGED <<stockfishRef, initialBoardArray, sentFen, sfTimers, rndTimers, stockfishReady,
                   loadingOpening, fetches>>
    /\ Effects(analyses)

\* The 500 ms timer set by movePiece fires.
getStockfishMove ==
    /\ sfTimers # <<>>
    /\ PermitTimer(<<"sf">>)
    /\ ConsumeTimer
    /\ sfTimers' = Tail(sfTimers)
    /\ rndTimers' = IF stockfishRef THEN Append(rndTimers, Head(sfTimers)) ELSE rndTimers
    /\ sentFen' = IF stockfishRef
                  THEN boardToFEN(Head(sfTimers).board, Head(sfTimers).currentPlayer)
                  ELSE sentFen
    /\ lastOp' = "getStockfishMove"
    /\ UNCHANGED <<game, gameMode, stockfishRef, initialBoardArray, stockfishReady, opening>>
    /\ Effects(IF stockfishRef
               THEN Post(analyses, Analysis(Head(sfTimers).board,
                                            Head(sfTimers).currentPlayer))
               ELSE analyses)

\* makeRandomMove's list of candidate moves, read with the closure of the
\* render that set the timer, over the board current when the timer fires.
allMoves(env, currentBoard) ==
    Flatten([i \in 1..64 |->
        LET row == (i - 1) \div 8
            col == (i - 1) % 8
            piece == Sq(currentBoard, row, col)
            moves == getValidMovesForBoard(env, currentBoard, row, col)
        IN  IF Truthy(piece) /\ piece = toLowerCase(piece)
            THEN [k \in 1..Len(moves) |-> [from |-> <<row, col>>, to |-> moves[k]]]
            ELSE <<>>])

\* The 1000 ms timer set by getStockfishMove fires.
makeRandomMove ==
    /\ rndTimers # <<>>
    /\ LET candidates == allMoves(Head(rndTimers), board)
       IN  IF Len(candidates) > 0
           THEN \E k \in 1..Len(candidates) :
                  LET randomMove == candidates[k]
                      fromLine == script # <<>>
                      fr == randomMove.from[1]
                      fc == randomMove.from[2]
                      tr == randomMove.to[1]
                      tc == randomMove.to[2]
                  IN  /\ fromLine \/ k <= MaxPick
                      /\ PermitTimer(<<"ai", fr, fc, tr, tc>>)
                      /\ board' = testBoard(board, fr, fc, randomMove.to)
                      /\ moveHistory' = Append(moveHistory, toUCI(fr, fc, tr, tc))
                      /\ currentPlayer' = "white"
           ELSE /\ PermitTimer(<<"ai", -1, -1, -1, -1>>)
                /\ UNCHANGED <<board, moveHistory, currentPlayer>>
    /\ ConsumeTimer
    /\ rndTimers' = Tail(rndTimers)
    /\ lastOp' = "makeRandomMove"
    /\ UNCHANGED <<selectedSquare, validMoves, gameResult, gameMode, kingMoved,
                   rookMoved, enPassantTarget, stockfishRef, initialBoardArray, sentFen, sfTimers,
                   stockfishReady>>
    /\ IF moveHistory' # moveHistory THEN fetchOpeningInfo(moveHistory')
       ELSE UNCHANGED opening
    /\ Effects(analyses)

\* The worker answers 'uci'.
uciok ==
    /\ stockfishRef
    /\ ~stockfishReady
    /\ PermitMessage(<<"uciok">>)
    /\ Consume
    /\ stockfishReady' = TRUE
    /\ lastOp' = "uciok"
    /\ UNCHANGED <<game, gameMode, stockfishRef, initialBoardArray, sentFen, timers, opening>>
    /\ Effects(analyses)

\* An info line of the k-th analysis in flight arrives: multipv pvIndex,
\* score cp centipawns, the pv beginning with the pvIndex-th move of the
\* position.
parseStockfishEval(k, pvIndex, centipawns) ==
    /\ k \in 1..Len(analyses)
    /\ pvIndex \in 1..Len(analyses[k].moves)
    /\ PermitMessage(<<"info", k, pvIndex, centipawns>>)
    /\ Consume
    /\ LET move == analyses[k].moves[pvIndex]
           fenParts == Split(currentAnalysisFEN, " ")
           sideToMove == IF Len(fenParts) >= 2 /\ fenParts[2] = <<"w">>
                         THEN "white" ELSE "black"
           whitePersp == IF sideToMove = "white" THEN centipawns ELSE -centipawns
           entry == [move |-> move, eval |-> whitePersp]
           filtered == IF pvIndex <= Len(topMoves)
                       THEN [topMoves EXCEPT ![pvIndex] = entry]
                       ELSE Append(topMoves, entry)
       IN  /\ bestMoveEval' = IF pvIndex = 1 THEN <<whitePersp>> ELSE bestMoveEval
           /\ currentEvaluation' = IF pvIndex = 1 THEN whitePersp ELSE currentEvaluation
           /\ topMoves' = filtered
           /\ moveEvaluations' =
                  IF gameMode = "trainer" /\ stockfishReady /\ selectedSquare # Null
                  THEN newEvals(selectedSquare, filtered)
                  ELSE losses(filtered, 1..Len(filtered))
    /\ lastOp' = "parseStockfishEval"
    /\ UNCHANGED <<game, gameMode, stockfishRef, initialBoardArray, sentFen, timers, stockfishReady,
                   currentAnalysisFEN, analyses, opening>>
    /\ topMovesPanel' = renderTopMoves(NextEnv, gameMode', topMoves')

\* fetchSettles as it would be if a failed lookup ended the game.
fetchSettlesEndingGame(k, outcome) ==
    /\ k \in 1..Len(fetches)
    /\ PermitMessage(<<"fetch", k, outcome>>)
    /\ Consume
    /\ openingInfo' = IF outcome = "ok" THEN fetches[k] ELSE Null
    /\ loadingOpening' = FALSE
    /\ fetches' = SubSeq(fetches, 1, k - 1) \o SubSeq(fetches, k + 1, Len(fetches))
    /\ lastOp' = "fetchOpeningInfo"
    /\ gameResult' = IF outcome = "ok" THEN gameResult ELSE "draw"
    /\ validMoves' = IF outcome = "ok" THEN validMoves ELSE <<>>
    /\ UNCHANGED <<board, selectedSquare, currentPlayer, moveHistory, kingMoved,
                   rookMoved, enPassantTarget, gameMode, stockfishRef, initialBoardArray, sentFen,
                   timers, stockfishReady, analysis>>

\* The k-th of the pending fetches of fetchOpeningInfo settles: with the
\* statistics, with an HTTP error, or with the rejection of the 5 s timeout.
fetchSettles(k, outcome) ==
    /\ k \in 1..Len(fetches)
    /\ PermitMessage(<<"fetch", k, outcome>>)
    /\ Consume
    /\ openingInfo' = IF outcome = "ok" THEN fetches[k] ELSE Null
    /\ loadingOpening' = FALSE
    /\ fetches' = SubSeq(fetches, 1, k - 1) \o SubSeq(fetches, k + 1, Len(fetches))
    /\ lastOp' = "fetchOpeningInfo"
    /\ UNCHANGED <<game, gameMode, stockfishRef, initialBoardArray, sentFen, timers, stockfishReady,
                   analysis>>

\* -------------------------------------------------------------- scenarios

\* The two clicks that play a move on the board.
clicksOf(uci) ==
    << <<"click", fromUCI(uci).fromRow, fromUCI(uci).fromCol>>,
       <<"click", fromUCI(uci).toRow, fromUCI(uci).toCol>> >>

\* The timer events that make the AI fallback play a move.
replyOf(uci) ==
    << <<"sf">>,
       <<"ai", fromUCI(uci).fromRow, fromUCI(uci).fromCol,
               fromUCI(uci).toRow, fromUCI(uci).toCol>> >>

\* A line played by two users in human mode.
VsHuman(line) == Flatten([i \in 1..Len(line) |-> clicksOf(line[i])])

\* A line played in AI mode: the user plays white, the fallback plays black.
VsAI(line) ==
    << <<"mode", "ai">> >> \o
    Flatten([i \in 1..Len(line) |->
        IF i % 2 = 1 THEN clicksOf(line[i]) ELSE replyOf(line[i])])

\* In AI mode: the reply to e2e4 puts a black knight on e3, beside the black
\* pawn on d4.
\* a2a3 d7d5 a3a4 d5d4 b2b3 g8f6 b3b4 f6g4 e2e4 g4e3
KnightOntoPassedSquare ==
    << <<"a","2","a","3">>, <<"d","7","d","5">>, <<"a","3","a","4">>, <<"d","5","d","4">>,
       <<"b","2","b","3">>, <<"g","8","f","6">>, <<"b","3","b","4">>, <<"f","6","g","4">>,
       <<"e","2","e","4">>, <<"g","4","e","3">> >>

\* Fool's mate.
\* f2f3 e7e5 g2g4 d8h4
FoolsMate ==
    << <<"f","2","f","3">>, <<"e","7","e","5">>, <<"g","2","g","4">>, <<"d","8","h","4">> >>

\* An en-passant capture.
\* e2e4 a7a6 e4e5 d7d5 e5d6
EnPassantLine ==
    << <<"e","2","e","4">>, <<"a","7","a","6">>, <<"e","4","e","5">>, <<"d","7","d","5">>,
       <<"e","5","d","6">> >>

\* The white king, the white e-pawn, the black d-pawn that has just advanced
\* two squares and the black queen stand on the fifth rank.
\* e2e4 c7c6 e4e5 d8a5 e1e2 a7a6 e2e3 a8a7 e3f4 a7a8 f4g5 d7d5
EnPassantPin ==
    << <<"e","2","e","4">>, <<"c","7","c","6">>, <<"e","4","e","5">>, <<"d","8","a","5">>,
       <<"e","1","e","2">>, <<"a","7","a","6">>, <<"e","2","e","3">>, <<"a","8","a","7">>,
       <<"e","3","f","4">>, <<"a","7","a","8">>, <<"f","4","g","5">>, <<"d","7","d","5">> >>

\* White castles kingside.
\* g1f3 a7a6 e2e3 b7b6 f1e2 c7c6 e1g1
CastleKingside ==
    << <<"g","1","f","3">>, <<"a","7","a","6">>, <<"e","2","e","3">>, <<"b","7","b","6">>,
       <<"f","1","e","2">>, <<"c","7","c","6">>, <<"e","1","g","1">> >>

\* White may castle kingside and is checked by the bishop on b4.
\* d2d4 e7e6 g1f3 a7a6 e2e3 h7h6 f1d3 f8b4
CastleInCheck ==
    << <<"d","2","d","4">>, <<"e","7","e","6">>, <<"g","1","f","3">>, <<"a","7","a","6">>,
       <<"e","2","e","3">>, <<"h","7","h","6">>, <<"f","1","d","3">>, <<"f","8","b","4">> >>

\* In AI mode: the fallback ignores the check on e8 and the queen takes the king.
\* e2e4 f7f6 d1h5 a7a6 h5e8
KingCapture ==
    << <<"e","2","e","4">>, <<"f","7","f","6">>, <<"d","1","h","5">>, <<"a","7","a","6">>,
       <<"h","5","e","8">> >>

\* In AI mode: white mates on h5 and the timer of that move is still pending.
\* e2e4 f7f6 d2d4 g7g5 d1h5 a7a6
MateThenReply ==
    << <<"e","2","e","4">>, <<"f","7","f","6">>, <<"d","2","d","4">>, <<"g","7","g","5">>,
       <<"d","1","h","5">>, <<"a","7","a","6">> >>

\* In AI mode: the black king leaves e8 and comes back, f8 and g8 being empty.
\* a2a3 g8f6 a3a4 e7e6 b2b3 f8e7 b3b4 e8f8 h2h3 f8e8 h3h4
KingWalk ==
    << <<"a","2","a","3">>, <<"g","8","f","6">>, <<"a","3","a","4">>, <<"e","7","e","6">>,
       <<"b","2","b","3">>, <<"f","8","e","7">>, <<"b","3","b","4">>, <<"e","8","f","8">>,
       <<"h","2","h","3">>, <<"f","8","e","8">>, <<"h","3","h","4">> >>

\* In AI mode: a black pawn walks h7-h5-h4-h3, takes on g2 and takes the rook on h1.
\* a2a3 h7h5 a3a4 h5h4 b2b3 h4h3 b3b4 h3g2 c2c3 g2h1
PawnToLastRank ==
    << <<"a","2","a","3">>, <<"h","7","h","5">>, <<"a","3","a","4">>, <<"h","5","h","4">>,
       <<"b","2","b","3">>, <<"h","4","h","3">>, <<"b","3","b","4">>, <<"h","3","g","2">>,
       <<"c","2","c","3">>, <<"g","2","h","1">> >>

\* In AI mode: the user plays e2e4 and presses New Game before the timers of
\* that move fire; the fallback then plays g8f6.
ResetRace ==
    << <<"mode", "ai">> >> \o clicksOf(<<"e","2","e","4">>) \o << <<"reset">> >>
    \o replyOf(<<"g","8","f","6">>)

\* In AI mode: the user plays e2e4, switches to vs Human and selects the pawn
\* on d7; the fallback then plays d7d6 and the user clicks d5.
StaleSelection ==
    << <<"mode", "ai">> >> \o clicksOf(<<"e","2","e","4">>)
    \o << <<"mode", "human">>, <<"click", 1, 3>> >>
    \o replyOf(<<"d","7","d","6">>) \o << <<"click", 3, 3>> >>

\* The standard opening.
\* e2e4 e7e5 g1f3
StandardOpening ==
    << <<"e","2","e","4">>, <<"e","7","e","5">>, <<"g","1","f","3">> >>

\* White castles queenside onto the open d-file, on which the black king stands.
\* d2d4 c7c5 d4c5 d7d5 e2e4 d5e4 d1h5 e8d7 c1f4 a7a6 b1c3 a6a5 e1c1
CastleWithCheck ==
    << <<"d","2","d","4">>, <<"c","7","c","5">>, <<"d","4","c","5">>, <<"d","7","d","5">>,
       <<"e","2","e","4">>, <<"d","5","e","4">>, <<"d","1","h","5">>, <<"e","8","d","7">>,
       <<"c","1","f","4">>, <<"a","7","a","6">>, <<"b","1","c","3">>, <<"a","6","a","5">>,
       <<"e","1","c","1">> >>

\* Move Trainer with the engine ready: after e2e4 two info lines of the
\* analysis of the new position arrive, the second 300 centipawns worse for
\* black than the first, and the user selects the knight on b8.
TrainerBlackToMove ==
    << <<"uciok">>, <<"mode", "trainer">> >> \o clicksOf(<<"e","2","e","4">>)
    \o << <<"info", 2, 1, 50>>, <<"info", 2, 2, -250>>, <<"click", 0, 1>> >>

\* Move Trainer with the engine ready and white to move: two info lines of
\* the analysis of the initial position, then the pawn on a2 is selected.
TrainerWhiteToMove ==
    << <<"uciok">>, <<"mode", "trainer">>, <<"info", 1, 1, 50>>, <<"info", 1, 2, -250>>,
       <<"click", 6, 0>> >>

\* Against the AI with the engine ready: after e2e4 a line of the analysis of
\* the initial position is still on its way; the 500 ms timer then asks for
\* its own analysis and a line of that one arrives before the reply e7e5.
EngineLinesInAIGame ==
    << <<"uciok">>, <<"mode", "ai">> >> \o clicksOf(<<"e","2","e","4">>)
    \o << <<"info", 1, 1, 50>>, <<"sf">>, <<"info", 2, 1, 50>>,
          <<"ai", 1, 4, 3, 4>> >>

\* Lookups of the opening statistics that settle at once, late, and after a
\* reset.
OpeningLookups ==
    clicksOf(<<"e","2","e","4">>) \o << <<"fetch", 1, "ok">> >>
    \o clicksOf(<<"e","7","e","5">>) \o clicksOf(<<"g","1","f","3">>)
    \o << <<"fetch", 1, "timeout">>, <<"reset">>, <<"fetch", 1, "ok">> >>

\* Two lookups in flight; the one requested last settles first.
OverlappingLookups ==
    clicksOf(<<"e","2","e","4">>) \o clicksOf(<<"e","7","e","5">>)
    \o << <<"fetch", 2, "ok">>, <<"fetch", 1, "ok">> >>

Scenarios ==
    { [worker |-> TRUE, events |-> <<>>],
      [worker |-> TRUE, events |-> TrainerBlackToMove],
      [worker |-> TRUE, events |-> TrainerWhiteToMove],
      [worker |-> TRUE, events |-> EngineLinesInAIGame],
      [worker |-> TRUE, events |-> OpeningLookups],
      [worker |-> TRUE, events |-> OverlappingLookups],
      [worker |-> TRUE, events |-> VsHuman(StandardOpening)],
      [worker |-> TRUE, events |-> VsHuman(CastleWithCheck)],
      [worker |-> TRUE, events |-> VsAI(PawnToLastRank)],
      [worker |-> TRUE, events |-> ResetRace],
      [worker |-> TRUE, events |-> StaleSelection],
      [worker |-> TRUE, events |-> VsHuman(FoolsMate)],
      [worker |-> TRUE, events |-> VsHuman(EnPassantLine)],
      [worker |-> TRUE, events |-> VsHuman(EnPassantPin)],
      [worker |-> TRUE, events |-> VsHuman(CastleKingside)],
      [worker |-> TRUE, events |-> VsHuman(CastleInCheck)],
      [worker |-> TRUE, events |-> VsAI(KingCapture)],
      [worker |-> TRUE, events |-> VsAI(KnightOntoPassedSquare)],
      [worker |-> TRUE, events |-> VsAI(MateThenReply)],
      [worker |-> TRUE, events |-> VsAI(KingWalk) \o << <<"sf">> >>] }

\* ------------------------------------------------------------ specification

\* The state of the component after its first render, for one of the given
\* scenarios.
Start(scenarios) ==
    /\ initialBoardArray = INITIAL_BOARD
    /\ board = initialBoardArray
    /\ selectedSquare = Null
    /\ validMoves = <<>>
    /\ currentPlayer = "white"
    /\ moveHistory = <<>>
    /\ gameResult = "null"
    /\ gameMode = "human"
    /\ kingMoved = NoKingMoved
    /\ rookMoved = NoRookMoved
    /\ enPassantTarget = Null
    /\ sfTimers = <<>>
    /\ rndTimers = <<>>
    /\ lastOp = "init"
    /\ free = 0
    /\ FirstRender
    /\ \E sc \in scenarios :
           /\ script = sc.events
           /\ stockfishRef = sc.worker
    /\ sentFen = Null

Init == Start(Scenarios)

Next ==
    \/ \E row \in Idx, col \in Idx : handleSquareClick(row, col)
    \/ resetGame
    \/ undoMove
    \/ \E mode \in {"human", "ai", "trainer"} : setGameMode(mode)
    \/ getStockfishMove
    \/ makeRandomMove
    \/ uciok
    \/ \E k \in 1..MaxAnalyses, pvIndex \in 1..MaxPv, centipawns \in Centipawns :
           parseStockfishEval(k, pvIndex, centipawns)
    \/ \E k \in 1..Len(fetches), outcome \in {"ok", "400", "500", "timeout"} :
           fetchSettles(k, outcome)

Spec == Init /\ [][Next]_vars

\* Games against the AI fallback, with and without a Stockfish worker, in
\* which every timer set by setTimeout eventually runs its callback.
\* e2e4 e7e5 g1f3 b8c6
OpenGame ==
    << <<"e","2","e","4">>, <<"e","7","e","5">>, <<"g","1","f","3">>, <<"b","8","c","6">> >>

LiveScenarios ==
    { [worker |-> TRUE, events |-> <<>>],
      [worker |-> FALSE, events |-> <<>>],
      [worker |-> TRUE, events |-> VsAI(OpenGame)],
      [worker |-> FALSE, events |-> VsAI(<< <<"e","2","e","4">> >>)] }

LiveInit == Start(LiveScenarios)

LiveSpec ==
    /\ LiveInit
    /\ [][Next]_vars
    /\ WF_vars(getStockfishMove)
    /\ WF_vars(makeRandomMove)

\* Boards handed to boardToFEN: the initial arrangement with one rank replaced
\* by every pattern of pawns and empty squares.
FenRanks == [1..8 -> {"", "p"}]

FenBoards == { [INITIAL_BOARD EXCEPT ![r] = rank] : r \in 1..8, rank \in FenRanks }

\* A render over one of these boards whose move has just set the timer of
\* getStockfishMove.
FenInit ==
    /\ initialBoardArray = INITIAL_BOARD
    /\ board \in FenBoards
    /\ currentPlayer \in {"white", "black"}
    /\ selectedSquare = Null
    /\ validMoves = <<>>
    /\ moveHistory = <<>>
    /\ gameResult = "null"
    /\ gameMode = "ai"
    /\ kingMoved = NoKingMoved
    /\ rookMoved = NoRookMoved
    /\ enPassantTarget = Null
    /\ stockfishRef = TRUE
    /\ sentFen = Null
    /\ sfTimers = <<CurrentEnv>>
    /\ rndTimers = <<>>
    /\ lastOp = "init"
    /\ script = <<>>
    /\ free = 0
    /\ FirstRender

FenNext == getStockfishMove

FenSpec == FenInit /\ [][FenNext]_vars

\* Texts handed to uciToAlgebraicWithBoard: every text of up to MaxText
\* characters over a file and a rank of the board and a letter and a digit
\* beside it, and moves of the initial position with and without a fifth
\* character.
NotationChars == {"e", "2", "i", "9"}

NotationTexts ==
    UNION {[1..n -> NotationChars] : n \in 0..MaxText}
    \cup {<<"e", "2", "e", "4">>, <<"g", "1", "f", "3">>, <<"e", "2", "e", "4", "q">>,
          <<"e", "2", "e", "4", "x">>, <<"e", "1", "g", "9">>}

\* A render in "vs Human" whose topMoves holds one of these texts; the panel
\* that passes it to uciToAlgebraic is shown once Move Trainer is chosen.
NotationInit ==
    /\ initialBoardArray = INITIAL_BOARD
    /\ board = initialBoardArray
    /\ currentPlayer = "white"
    /\ selectedSquare = Null
    /\ validMoves = <<>>
    /\ moveHistory = <<>>
    /\ gameResult = "null"
    /\ gameMode = "human"
    /\ kingMoved = NoKingMoved
    /\ rookMoved = NoRookMoved
    /\ enPassantTarget = Null
    /\ stockfishRef = TRUE
    /\ sentFen = Null
    /\ sfTimers = <<>>
    /\ rndTimers = <<>>
    /\ lastOp = "init"
    /\ script = <<>>
    /\ free = 0
    /\ stockfishReady = FALSE
    /\ currentAnalysisFEN = <<>>
    /\ analyses = <<>>
    /\ currentEvaluation = 0
    /\ bestMoveEval = Null
    /\ \E text \in NotationTexts : topMoves = <<[move |-> text, eval |-> 0]>>
    /\ moveEvaluations = <<>>
    /\ topMovesPanel = <<>>
    /\ openingInfo = Null
    /\ loadingOpening = FALSE
    /\ fetches = <<>>

NotationNext ==
    \/ setGameMode("trainer")
    \/ \E row \in Idx, col \in Idx : handleSquareClick(row, col)

NotationSpec == NotationInit /\ [][NotationNext]_vars

\* Boards handed to getValidMovesForBoard and isSquareUnderAttack: both
\* kings on their squares, one piece of any other kind on one of the squares
\* of SubjectSquares (b2 and g7 on the pawns' home ranks, d4 beside the en
\* passant target, the corner h1) and one pawn of either colour on any other
\* square.
EMPTY_BOARD == [r \in 1..8 |-> [c \in 1..8 |-> ""]]

KingsOnly == Put(Put(EMPTY_BOARD, 7, 4, "K"), 0, 4, "k")

SubjectSquares == {<<6, 1>>, <<1, 6>>, <<4, 3>>, <<7, 7>>}

SubjectPieces == (WhitePieces \cup BlackPieces) \ {"K", "k"}

MoveBoards ==
    { Put(Put(KingsOnly, at[1], at[2], subject), other \div 8, other % 8, pawn) :
        at \in SubjectSquares, subject \in SubjectPieces,
        other \in {i \in 0..63 : Sq(KingsOnly, i \div 8, i % 8) = ""},
        pawn \in {"P", "p"} }

\* The en passant targets of these renders: none or c3.
MoveTargets == {Null, <<5, 2>>}

\* A render in "vs AI" over one of these boards, white to move; with the
\* target c3, which the reply of the AI has left in place, the white pawn
\* that passed it stands on c4.
MovesInit ==
    /\ initialBoardArray = INITIAL_BOARD
    /\ \E boardState \in MoveBoards, target \in MoveTargets :
           /\ enPassantTarget = target
           /\ board = IF target = Null THEN boardState
                      ELSE Put(boardState, 4, 2, "P")
    /\ currentPlayer = "white"
    /\ selectedSquare = Null
    /\ validMoves = <<>>
    /\ moveHistory = <<>>
    /\ gameResult = "null"
    /\ gameMode = "ai"
    /\ kingMoved = NoKingMoved
    /\ rookMoved = NoRookMoved
    /\ stockfishRef = TRUE
    /\ sentFen = Null
    /\ sfTimers = <<>>
    /\ rndTimers = <<>>
    /\ lastOp = "init"
    /\ script = <<>>
    /\ free = MaxFree - 1
    /\ FirstRender

MovesNext == \E row \in Idx, col \in Idx : handleSquareClick(row, col)

MovesSpec == MovesInit /\ [][MovesNext]_vars

\* ------------------------------------------------------------------ claims

\* The moves a click on (row, col) would put into validMoves: none when the
\* click handler returns early or the square holds no piece of the side to move.
Offered(row, col) ==
    IF gameResult # "null" \/ (gameMode = "ai" /\ currentPlayer = "black")
    THEN <<>>
    ELSE IF isCurrentPlayerPiece(Sq(board, row, col)) THEN getValidMoves(row, col)
    ELSE <<>>

\* The board handleSquareClick and movePiece produce when the piece on
\* (row, col) is selected, `moves` is offered, and the destination of `move`
\* is clicked.
AppliedBoard(row, col, moves, move) ==
    LET applied == findMove(moves, move[1], move[2])
    IN  movedBoard(row, col, move[1], move[2], castleTypeOf(applied),
                   isEnPassantOf(applied))

\* C1: in every reachable state, for every piece of the side to move, every
\* move getValidMoves returns, applied by movePiece with its full effect,
\* gives a board on which the king of the colour that moved is not in check.
C1_LegalMovesKeepOwnKingSafe ==
    \A row \in Idx, col \in Idx :
        isCurrentPlayerPiece(Sq(board, row, col)) =>
            LET moves == getValidMoves(row, col)
            IN  \A i \in 1..Len(moves) :
                    ~isKingInCheck(AppliedBoard(row, col, moves, moves[i]),
                                   currentPlayer)

\* How many squares of the board hold `piece`.
Count(boardState, piece) ==
    Cardinality({i \in 0..63 : Sq(boardState, i \div 8, i % 8) = piece})

\* C2: in every state reachable by user moves, AI moves and resets, the board
\* holds exactly one white king and exactly one black king.
C2_ExactlyOneKingEach == Count(board, "K") = 1 /\ Count(board, "k") = 1

\* The side to move has a move that getValidMoves returns in this state.
SideToMoveHasLegalMove ==
    \E row \in Idx, col \in Idx :
        /\ isCurrentPlayerPiece(Sq(board, row, col))
        /\ getValidMoves(row, col) # <<>>

\* C3: when movePiece has applied a move, the recorded result is a win for the
\* mover exactly when the next player is in check and has no legal move in
\* the position after the move (its board, en-passant target and castling
\* flags), a draw exactly when the next player is not in check and has no
\* legal move, and null exactly when the next player has a legal move.
C3_ResultDecidedOnPostMovePosition ==
    lastOp = "movePiece" =>
        LET inCheck == isKingInCheck(board, currentPlayer)
            hasMove == SideToMoveHasLegalMove
            win == IF currentPlayer = "black" THEN "1-0" ELSE "0-1"
        IN  /\ (gameResult = win) <=> (inCheck /\ ~hasMove)
            /\ (gameResult = "1/2-1/2") <=> (~inCheck /\ ~hasMove)
            /\ (gameResult = "null") <=> hasMove

\* C4: in every reachable state whose gameResult is null, the side to move
\* has at least one legal move.
C4_UnfinishedGameHasLegalMove ==
    gameResult = "null" => SideToMoveHasLegalMove

\* C5: once gameResult is non-null, no step other than a reset changes the
\* board, the move history or the side to move.
C5_FinishedGameIsFrozen ==
    [][(gameResult # "null" /\ lastOp' # "resetGame") =>
           (board' = board /\ moveHistory' = moveHistory
            /\ currentPlayer' = currentPlayer)]_vars

\* The coordinates of the most recently applied move.
LastMove == fromUCI(moveHistory[Len(moveHistory)])

\* The most recently applied move took a king two columns sideways.
LastWasCastling ==
    /\ moveHistory # <<>>
    /\ Sq(board, LastMove.toRow, LastMove.toCol) \in {"K", "k"}
    /\ LastMove.fromRow = LastMove.toRow
    /\ Abs(LastMove.toCol - LastMove.fromCol) = 2

\* C6: when a castling move has been applied through handleSquareClick and
\* movePiece, the king stands on its castled square, the rook of that wing
\* on the square the king crossed, its corner is empty, and castling on that
\* wing is not offered in the resulting position.
C6_CastlingRelocatesRook ==
    (lastOp = "movePiece" /\ LastWasCastling) =>
        LET row == LastMove.toRow
            kingside == LastMove.toCol = 6
            rook == IF Sq(board, row, LastMove.toCol) = "K" THEN "R" ELSE "r"
            env == CurrentEnv
        IN  /\ Sq(board, row, IF kingside THEN 5 ELSE 3) = rook
            /\ Sq(board, row, IF kingside THEN 7 ELSE 0) = ""
            /\ \A i \in 1..Len(CastlingMoves(env, board, rook = "R")) :
                   CastlingMoves(env, board, rook = "R")[i] # <<row, LastMove.toCol>>

\* C7: getValidMoves offers no castling move while the king is in check, nor
\* when the king's start square, the square it crosses or its destination is
\* attacked by the opponent.
C7_NoCastlingOutOfOrThroughCheck ==
    \A row \in Idx, col \in Idx :
        (isCurrentPlayerPiece(Sq(board, row, col))
         /\ Sq(board, row, col) \in {"K", "k"}) =>
            LET moves == getValidMoves(row, col)
            IN  \A i \in 1..Len(moves) :
                    (moves[i][1] = row /\ Abs(moves[i][2] - col) = 2) =>
                        /\ ~isKingInCheck(board, currentPlayer)
                        /\ \A c \in Idx :
                               ((col <= c /\ c <= moves[i][2])
                                \/ (moves[i][2] <= c /\ c <= col)) =>
                                   ~isSquareUnderAttack(board, row, c,
                                                        Other(currentPlayer))

\* Some applied move left from or arrived on the square (row, col).
Touched(row, col) ==
    \E i \in 1..Len(moveHistory) :
        \/ fromUCI(moveHistory[i]).fromRow = row /\ fromUCI(moveHistory[i]).fromCol = col
        \/ fromUCI(moveHistory[i]).toRow = row /\ fromUCI(moveHistory[i]).toCol = col

\* The king of `color` has moved, or the rook that started on the corner of
\* the wing with rook column `corner` has moved away or been captured there.
Forfeited(color, corner) ==
    LET row == IF color = "white" THEN 7 ELSE 0
    IN  Touched(row, 4) \/ Touched(row, corner)

\* Castling towards `corner` is offered to `color`: to the user by a click on
\* the king, or to the AI fallback in the candidate list of a pending timer.
CastlingOffered(color, corner) ==
    LET row == IF color = "white" THEN 7 ELSE 0
        dest == <<row, IF corner = 7 THEN 6 ELSE 2>>
        king == IF color = "white" THEN "K" ELSE "k"
        has(moves) == \E i \in 1..Len(moves) : moves[i] = dest
    IN  /\ Sq(board, row, 4) = king
        /\ \/ currentPlayer = color /\ has(Offered(row, 4))
           \/ /\ color = "black"
              /\ rndTimers # <<>>
              /\ has(getValidMovesForBoard(Head(rndTimers), board, row, 4))

\* C8: once a king has moved, or a corner's original rook has moved away or
\* been captured, castling with that king on that wing is not offered again,
\* neither to the user nor to the AI.
C8_ForfeitedCastlingNeverOffered ==
    \A color \in {"white", "black"}, corner \in {0, 7} :
        Forfeited(color, corner) => ~CastlingOffered(color, corner)

\* The most recently applied move was a pawn's two-square advance.
LastWasDoubleAdvance ==
    /\ moveHistory # <<>>
    /\ Sq(board, LastMove.toRow, LastMove.toCol) \in {"P", "p"}
    /\ LastMove.fromCol = LastMove.toCol
    /\ Abs(LastMove.toRow - LastMove.fromRow) = 2

\* The square the pawn of the last move passed over.
PassedOver == <<(LastMove.fromRow + LastMove.toRow) \div 2, LastMove.fromCol>>

\* C9: enPassantTarget is non-null exactly when the most recently applied
\* move, by a click or by the AI, was a pawn's two-square advance, and then it
\* is the square that pawn passed over.
C9_EnPassantTargetTracksLastMove ==
    IF LastWasDoubleAdvance THEN enPassantTarget = PassedOver
    ELSE enPassantTarget = Null

\* C10: an en-passant capture is offered only to a pawn beside an enemy pawn
\* that advanced two squares on the preceding move; applied, it puts the
\* capturing pawn on the passed-over square, empties its origin and the
\* advanced pawn's square and changes nothing else; and after e2e4 a7a6 e4e5
\* d7d5 the capture e5d6 is offered.
C10_EnPassantOfferedAndApplied ==
    /\ \A row \in Idx, col \in Idx :
           LET moves == Offered(row, col)
               pawn == Sq(board, row, col)
           IN  \A i \in 1..Len(moves) :
                   isEnPassantOf(moves[i]) =>
                       /\ pawn \in {"P", "p"}
                       /\ LastWasDoubleAdvance
                       /\ <<moves[i][1], moves[i][2]>> = PassedOver
                       /\ LastMove.toRow = row /\ LastMove.toCol = moves[i][2]
                       /\ Sq(board, row, moves[i][2]) = (IF pawn = "P" THEN "p" ELSE "P")
                       /\ AppliedBoard(row, col, moves, moves[i]) =
                              Put(Put(Put(board, moves[i][1], moves[i][2], pawn),
                                      row, col, ""),
                                  row, moves[i][2], "")
    /\ (moveHistory = SubSeq(EnPassantLine, 1, 4) /\ gameMode = "human") =>
           \E i \in 1..Len(Offered(3, 4)) : Offered(3, 4)[i] = <<2, 3, 1>>

\* The board a move gives when it is applied with its full effect: the rook
\* relocated when a king goes two columns sideways, the captured pawn removed
\* on an en-passant capture, a queen in place of a pawn on the farthest rank.
FullEffect(boardState, row, col, move) ==
    LET piece == Sq(boardState, row, col)
        plain == testBoard(boardState, row, col, move)
        tr == move[1]
        tc == move[2]
    IN  IF piece \in {"K", "k"} /\ Abs(tc - col) = 2
        THEN (IF tc > col
              THEN Put(Put(plain, tr, 5, Sq(plain, tr, 7)), tr, 7, "")
              ELSE Put(Put(plain, tr, 3, Sq(plain, tr, 0)), tr, 0, ""))
        ELSE IF isEnPassantOf(move) THEN Put(plain, row, tc, "")
        ELSE IF piece = "P" /\ tr = 0 THEN Put(plain, tr, tc, "Q")
        ELSE IF piece = "p" /\ tr = 7 THEN Put(plain, tr, tc, "q")
        ELSE plain

\* C11: every move makeRandomMove applies is a move of a black piece out of
\* the legality-filtered move set of the position it is applied to, and the
\* board after it is that move's full effect.
C11_AIFallbackMoveIsLegal ==
    [][(lastOp' = "makeRandomMove" /\ moveHistory' # moveHistory) =>
           \E row \in Idx, col \in Idx :
               /\ Sq(board, row, col) \in BlackPieces
               /\ LET moves == FilterLegal(CurrentEnv, board, row, col)
                  IN  \E i \in 1..Len(moves) :
                          board' = FullEffect(board, row, col, moves[i])]_vars

\* C12: no reachable board has a pawn on row 0 or on row 7.
C12_NoPawnOnFirstOrLastRank ==
    \A col \in Idx :
        /\ Sq(board, 0, col) \notin {"P", "p"}
        /\ Sq(board, 7, col) \notin {"P", "p"}

\* C13: every step that appends a move to moveHistory moves a piece of the
\* colour of currentPlayer and hands the turn to the other colour, and after
\* every step currentPlayer is white exactly when moveHistory has even length.
C13_TurnsAlternate ==
    [][/\ (Len(moveHistory') = Len(moveHistory) + 1) =>
              LET applied == fromUCI(moveHistory'[Len(moveHistory')])
                  piece == Sq(board, applied.fromRow, applied.fromCol)
              IN  /\ IF currentPlayer = "white" THEN piece \in WhitePieces
                     ELSE piece \in BlackPieces
                  /\ currentPlayer' = Other(currentPlayer)
       /\ (currentPlayer' = "white") <=> (Len(moveHistory') % 2 = 0)]_vars

\* (row, col) is a legal destination of the piece on the selected square.
LegalDestination(row, col) ==
    /\ selectedSquare # Null
    /\ LET moves == Offered(selectedSquare[1], selectedSquare[2])
       IN  \E i \in 1..Len(moves) : moves[i][1] = row /\ moves[i][2] = col

\* C14: a click on a square that is not a legal destination of the selected
\* piece leaves board, currentPlayer, moveHistory, the castling flags,
\* enPassantTarget and gameResult unchanged.
C14_IllegalClickAppliesNoMove ==
    [][\A row \in Idx, col \in Idx :
           (handleSquareClick(row, col) /\ ~LegalDestination(row, col)) =>
               UNCHANGED <<board, currentPlayer, moveHistory, kingMoved, rookMoved,
                           enPassantTarget, gameResult>>]_vars

\* C15: in the state resetGame produces the board is the initial arrangement,
\* white is to move, moveHistory is empty, gameResult and enPassantTarget are
\* null, no king or rook counts as moved and no square is selected.
C15_ResetGivesFreshGame ==
    (lastOp = "resetGame") =>
        /\ board = INITIAL_BOARD
        /\ currentPlayer = "white"
        /\ moveHistory = <<>>
        /\ gameResult = "null"
        /\ enPassantTarget = Null
        /\ kingMoved = NoKingMoved
        /\ rookMoved = NoRookMoved
        /\ selectedSquare = Null
        /\ validMoves = <<>>

\* A game was reset while the timer of its last move was still pending.
C15_ResetWithTimerPending ==
    lastOp = "resetGame" /\ sfTimers # <<>> /\ gameMode = "ai"

\* C16: while moveHistory is empty (a fresh or reset game) no step other than
\* a user's move changes the initial position or the side to move, and a
\* makeRandomMove that fires when the game mode is no longer "ai" changes
\* no square.
C16_StaleReplyNeverApplied ==
    [][/\ (moveHistory = <<>> /\ lastOp' # "movePiece") =>
              (board' = INITIAL_BOARD /\ currentPlayer' = "white"
               /\ moveHistory' = <<>>)
       /\ (lastOp' = "makeRandomMove" /\ gameMode # "ai") => board' = board]_vars

\* C17: in AI mode, a white move that leaves gameResult null is always
\* followed, sooner or later, by a state in which it is white's turn again.
C17_BlackReplyEventuallyApplied ==
    (gameMode = "ai" /\ currentPlayer = "black" /\ gameResult = "null"
     /\ lastOp = "movePiece") ~> (currentPlayer = "white")

\* The castling field the flags of the game stand for.
CastlingField ==
    LET rights ==
            (IF ~kingMoved.white /\ ~rookMoved.whiteKingSide THEN <<"K">> ELSE <<>>)
            \o (IF ~kingMoved.white /\ ~rookMoved.whiteQueenSide THEN <<"Q">> ELSE <<>>)
            \o (IF ~kingMoved.black /\ ~rookMoved.blackKingSide THEN <<"k">> ELSE <<>>)
            \o (IF ~kingMoved.black /\ ~rookMoved.blackQueenSide THEN <<"q">> ELSE <<>>)
    IN  IF rights = <<>> THEN <<"-">> ELSE rights

\* The en-passant field enPassantTarget stands for.
EnPassantField ==
    IF enPassantTarget = Null THEN <<"-">>
    ELSE <<files[enPassantTarget[2] + 1], digits[8 - enPassantTarget[1]]>>

\* C18: in every reachable state the FEN boardToFEN produces for the current
\* render has 'w' as side to move exactly when white is to move, lists in its
\* castling field exactly the castling rights still available, and names
\* enPassantTarget in its en-passant field ('-' when null).
C18_FenReflectsGameState ==
    LET fields == Split(boardToFEN(board, currentPlayer), " ")
    IN  /\ fields[2] = (IF currentPlayer = "white" THEN <<"w">> ELSE <<"b">>)
        /\ fields[3] = CastlingField
        /\ fields[4] = EnPassantField

IsDigit(ch) == \E n \in 1..8 : digits[n] = ch

\* The squares a rank of the piece-placement field stands for.
Expand(rank) ==
    Flatten([i \in 1..Len(rank) |->
        IF IsDigit(rank[i]) THEN [k \in 1..parseInt(rank[i]) |-> ""]
        ELSE <<rank[i]>>])

\* C19: the piece-placement field of the FEN getStockfishMove has produced
\* has exactly 8 ranks separated by '/', each standing for exactly 8 squares
\* with no two digits adjacent, and decoded, rank 8 first, it is the board it
\* was produced from.
C19_PlacementFieldRoundTrip ==
    (sentFen # Null) =>
        LET ranks == Split(Split(sentFen, " ")[1], "/")
        IN  /\ Len(ranks) = 8
            /\ \A r \in 1..Len(ranks) :
                   /\ Len(Expand(ranks[r])) = 8
                   /\ \A i \in 1..(Len(ranks[r]) - 1) :
                          ~(IsDigit(ranks[r][i]) /\ IsDigit(ranks[r][i + 1]))
            /\ [r \in 1..Len(ranks) |-> Expand(ranks[r])] = board

\* A FEN was produced from a board with a rank that begins and ends with
\* empty squares and has pawns and empty squares in between.
C19_FenOfRankWithEmptyRuns ==
    /\ sentFen # Null
    /\ \E r \in 1..8 : board[r] = <<"", "", "p", "", "p", "p", "", "">>

\* C20: in every reachable state the replay loop of the move-history panel,
\* run over the whole of moveHistory from INITIAL_BOARD, gives the current
\* board.
C20_ReplayReconstructsBoard ==
    replay(moveHistory, Len(moveHistory)) = board

\* The piece that makes the i-th move of moveHistory, on the board the
\* history replay gives for the moves before it.
MoverOf(i) ==
    LET at == fromUCI(moveHistory[i])
    IN  Sq(replay(moveHistory, i - 1), at.fromRow, at.fromCol)

\* The i-th move of moveHistory takes a pawn to the farthest rank.
ReachesFarthestRank(i) ==
    \/ MoverOf(i) = "P" /\ fromUCI(moveHistory[i]).toRow = 0
    \/ MoverOf(i) = "p" /\ fromUCI(moveHistory[i]).toRow = 7

\* C21: every entry of moveHistory has four characters, or five ending in
\* 'q' exactly when the move took a pawn to the farthest rank; and for all
\* squares, the text movePiece writes for them, parsed as the history replay
\* and uciToAlgebraicWithBoard parse it, gives back the coordinates, and
\* written again gives the same text.
C21_HistoryEntriesAreCoordinateMoves ==
    /\ \A i \in 1..Len(moveHistory) :
           /\ Len(moveHistory[i]) = (IF ReachesFarthestRank(i) THEN 5 ELSE 4)
           /\ Len(moveHistory[i]) = 5 => moveHistory[i][5] = "q"
    /\ \A fromRow \in Idx, fromCol \in Idx, toRow \in Idx, toCol \in Idx :
           LET text == toUCI(fromRow, fromCol, toRow, toCol)
               back == fromUCI(text)
           IN  /\ back = [fromRow |-> fromRow, fromCol |-> fromCol,
                          toRow |-> toRow, toCol |-> toCol]
               /\ toUCI(back.fromRow, back.fromCol, back.toRow, back.toCol) = text

\* C22: while f2f3 e7e5 g2g4 d8h4 is being played from the initial position
\* gameResult is null, and once the fourth move is played it is '0-1'.
C22_FoolsMateIsCheckmate ==
    /\ (\E n \in 0..3 : moveHistory = SubSeq(FoolsMate, 1, n)) => gameResult = "null"
    /\ (moveHistory = FoolsMate) => gameResult = "0-1"

\* The board after e2e4 e7e5 g1f3.
AfterStandardOpening ==
    << <<"r", "n", "b", "q", "k", "b", "n", "r">>,
       <<"p", "p", "p", "p", "",  "p", "p", "p">>,
       <<"",  "",  "",  "",  "",  "",  "",  "">>,
       <<"",  "",  "",  "",  "p", "",  "",  "">>,
       <<"",  "",  "",  "",  "P", "",  "",  "">>,
       <<"",  "",  "",  "",  "",  "N", "",  "">>,
       <<"P", "P", "P", "P", "",  "P", "P", "P">>,
       <<"R", "N", "B", "Q", "K", "B", "",  "R">> >>

\* C23: when e2e4 e7e5 g1f3 has been played from the initial position, the
\* knight is on f3, the pawns are on e4 and e5, every other piece is where it
\* started, black is to move, gameResult is null and no king or rook counts
\* as moved.
C23_StandardOpeningPosition ==
    (moveHistory = StandardOpening) =>
        /\ board = AfterStandardOpening
        /\ currentPlayer = "black"
        /\ gameResult = "null"
        /\ kingMoved = NoKingMoved
        /\ rookMoved = NoRookMoved

\* The standard opening has been played by two users.
C23_StandardOpeningPlayed ==
    moveHistory = StandardOpening /\ gameMode = "human" /\ lastOp = "movePiece"

\* The squares a move may change: its origin and destination, for a king
\* going two columns the rook's corner and the square the king crossed, for
\* a pawn going diagonally the square beside it.
MayChange(move, row, col) ==
    LET at == fromUCI(move)
    IN  \/ <<row, col>> \in {<<at.fromRow, at.fromCol>>, <<at.toRow, at.toCol>>}
        \/ row = at.fromRow /\ at.fromRow = at.toRow
           /\ Abs(at.toCol - at.fromCol) = 2 /\ col \in {0, 3, 5, 7}
        \/ row = at.fromRow /\ col = at.toCol /\ Abs(at.toCol - at.fromCol) = 1

\* C29: undoMove with a non-empty history removes the last entry of
\* moveHistory and nothing else of it, puts the moved piece back on its
\* origin and leaves every square the last move could not have changed as it
\* is; with an empty history it changes nothing of the game.
C29_UndoTakesBackOneMove ==
    [][undoMove =>
           IF moveHistory = <<>>
           THEN UNCHANGED game
           ELSE LET last == moveHistory[Len(moveHistory)]
                    at == fromUCI(last)
                IN  /\ moveHistory' = SubSeq(moveHistory, 1, Len(moveHistory) - 1)
                    /\ Sq(board', at.fromRow, at.fromCol) = Sq(board, at.toRow, at.toCol)
                       \/ Len(last) = 5
                    /\ \A row \in Idx, col \in Idx :
                           ~MayChange(last, row, col) =>
                               Sq(board', row, col) = Sq(board, row, col)]_vars

\* The line of the move list for the i-th move of moveHistory.
historyNotation(i) ==
    uciToAlgebraicWithBoard(CurrentEnv, moveHistory[i], replay(moveHistory, i - 1),
                            IF (i - 1) % 2 = 0 THEN "black" ELSE "white")

\* The flags and en-passant target of a position reached by the given move
\* in which the side to move is in check: castling is not available to it.
EnvAfter(boardState, row, col, move) ==
    [enPassantTarget |->
         IF toLowerCase(Sq(boardState, row, col)) = "p" /\ Abs(move[1] - row) = 2
         THEN <<(row + move[1]) \div 2, col>> ELSE Null,
     kingMoved |-> [white |-> TRUE, black |-> TRUE],
     rookMoved |-> [whiteKingSide |-> TRUE, whiteQueenSide |-> TRUE,
                    blackKingSide |-> TRUE, blackQueenSide |-> TRUE],
     board |-> boardState,
     currentPlayer |-> IF IsUpper(Sq(boardState, row, col)) THEN "black" ELSE "white"]

\* The notation of a move of the piece on (row, col) of boardState to the
\* square move: the castling text or piece letter, capture mark, destination
\* and promotion, and the suffix of the position the move leads to.
ExpectedNotation(boardState, row, col, move, promoted) ==
    LET piece == Sq(boardState, row, col)
        opponent == IF IsUpper(piece) THEN "black" ELSE "white"
        passing == toUpperCase(piece) = "P" /\ move[2] # col
                   /\ Sq(boardState, move[1], move[2]) = ""
        after == FullEffect(boardState, row, col,
                            IF passing THEN <<move[1], move[2], 1>> ELSE move)
        inCheck == isKingInCheck(after, opponent)
        mated == inCheck
                 /\ ~hasLegalMoves(EnvAfter(boardState, row, col, move), after, opponent)
        toSquare == <<files[move[2] + 1], digits[8 - move[1]]>>
        isCapture == \/ Sq(boardState, move[1], move[2]) # ""
                     \/ toUpperCase(piece) = "P" /\ move[2] # col
        core == IF toUpperCase(piece) = "K" /\ Abs(move[2] - col) = 2
                THEN (IF move[2] > col THEN <<"O", "-", "O">>
                      ELSE <<"O", "-", "O", "-", "O">>)
                ELSE IF toUpperCase(piece) = "P"
                THEN (IF isCapture THEN <<files[col + 1], "x">> ELSE <<>>) \o toSquare
                     \o (IF promoted THEN <<"=", "Q">> ELSE <<>>)
                ELSE <<toUpperCase(piece)>> \o (IF isCapture THEN <<"x">> ELSE <<>>)
                     \o toSquare
    IN  core \o (IF mated THEN <<"#">> ELSE IF inCheck THEN <<"+">> ELSE <<>>)

\* C24: in every reachable state, each line of the move list is the notation
\* of its move on the board the list replays for it: 'O-O' or 'O-O-O' for
\* castling, no piece letter for a pawn, 'x' exactly for a capture, and '#'
\* exactly when the move with its full effect checkmates the opponent, '+'
\* exactly when it gives check without mate, no suffix otherwise.
C24_NotationSuffixMatchesPosition ==
    \A i \in 1..Len(moveHistory) :
        LET at == fromUCI(moveHistory[i])
        IN  Sq(replay(moveHistory, i - 1), at.fromRow, at.fromCol) # "" =>
                historyNotation(i) =
                    Returned(ExpectedNotation(replay(moveHistory, i - 1), at.fromRow,
                                              at.fromCol, <<at.toRow, at.toCol>>,
                                              Len(moveHistory[i]) > 4))

\* The side to move of the position a FEN describes.
AnalysedSide(fen) ==
    IF Split(fen, " ")[2] = <<"w">> THEN "white" ELSE "black"

\* C25: whenever an info line is parsed, the evaluation stored for it in
\* topMoves (and, for multipv 1, in currentEvaluation and bestMoveEval) is
\* the reported score when the position its analysis was requested for had
\* white to move and the negated score when it had black to move, also when
\* a newer analysis has been requested since.
C25_StoredEvalIsWhitePerspective ==
    [][\A k \in 1..MaxAnalyses, pvIndex \in 1..MaxPv, centipawns \in Centipawns :
           parseStockfishEval(k, pvIndex, centipawns) =>
               LET whitePersp == IF AnalysedSide(analyses[k].fen) = "white"
                                 THEN centipawns ELSE -centipawns
                   at == IF pvIndex <= Len(topMoves) THEN pvIndex ELSE Len(topMoves) + 1
               IN  /\ topMoves'[at].eval = whitePersp
                   /\ pvIndex = 1 => /\ currentEvaluation' = whitePersp
                                     /\ bestMoveEval' = <<whitePersp>>]_vars

\* getMoveQualityColor with the move hints shown: the ring colour of a
\* destination square of the selected piece, "" for none.
getMoveQualityColor(fromRow, fromCol, toRow, toCol) ==
    LET moveStr == toUCI(fromRow, fromCol, toRow, toCol)
        cpLoss == moveEvaluations[moveStr]
    IN  IF gameMode # "trainer" THEN ""
        ELSE IF moveStr \notin DOMAIN moveEvaluations THEN ""
        ELSE IF cpLoss = 0 THEN "green-600"
        ELSE IF cpLoss < 25 THEN "emerald-400"
        ELSE IF cpLoss < 50 THEN "lime-400"
        ELSE IF cpLoss < 100 THEN "yellow-400"
        ELSE IF cpLoss < 200 THEN "orange-400"
        ELSE "red-400"

\* The score of the i-th top move as the engine reported it for the side to
\* move of the position under analysis.
ScoreForMover(i) ==
    LET fenParts == Split(currentAnalysisFEN, " ")
    IN  IF Len(fenParts) >= 2 /\ fenParts[2] = <<"w">>
        THEN topMoves[i].eval ELSE -topMoves[i].eval

\* C26: in Move Trainer, when the first of the top moves is the best for the
\* side to move, the loss stored for every top move is how much worse its
\* score is than the best one's, and is not negative; a destination of the
\* selected piece whose move is at least 200 centipawns worse is ringed red,
\* and one ringed green is as good as the best.
C26_LossIsDistanceFromBest ==
    (/\ gameMode = "trainer"
     /\ topMoves # <<>>
     /\ \A i \in 1..Len(topMoves) : ScoreForMover(1) >= ScoreForMover(i)) =>
        \A i \in 1..Len(topMoves) :
            LET text == topMoves[i].move
                worse == ScoreForMover(1) - ScoreForMover(i)
                at == fromUCI(text)
            IN  (/\ text \in DOMAIN moveEvaluations
                 /\ \A j \in 1..Len(topMoves) : topMoves[j].move = text => j <= i) =>
                    /\ moveEvaluations[text] >= 0
                    /\ moveEvaluations[text] = worse
                    /\ selectedSquare = <<at.fromRow, at.fromCol>> =>
                           LET ring == getMoveQualityColor(at.fromRow, at.fromCol,
                                                           at.toRow, at.toCol)
                           IN  /\ worse >= 200 => ring = "red-400"
                               /\ ring = "green-600" => worse = 0

PlacedIn(fen, piece) ==
    LET placement == Split(fen, " ")[1]
    IN  Cardinality({i \in 1..Len(placement) : placement[i] = piece})

\* whiteKingCount === 1 && blackKingCount === 1
HasOneKingEach(fen) == PlacedIn(fen, "K") = 1 /\ PlacedIn(fen, "k") = 1

\* C28: a board without exactly one king of each colour is never answered
\* by guessing: isKingInCheck gives no true/false answer for a colour whose
\* king is not on the board, and neither the FEN getStockfishMove sent to
\* the engine nor the one evaluateAllMoves sent describes such a board.
C28_MissingKingAborts ==
    /\ Count(board, "K") # 1 => isKingInCheck(board, "white") \notin BOOLEAN
    /\ Count(board, "k") # 1 => isKingInCheck(board, "black") \notin BOOLEAN
    /\ sentFen # Null => HasOneKingEach(sentFen)
    /\ currentAnalysisFEN # <<>> => HasOneKingEach(currentAnalysisFEN)

\* The UCI move grammar: two squares a1..h8 and an optional promotion letter.
WellFormed(text) ==
    /\ Len(text) \in {4, 5}
    /\ \A i \in {1, 3} : \E n \in 1..8 : files[n] = text[i]
    /\ \A i \in {2, 4} : \E n \in 1..8 : digits[n] = text[i]
    /\ Len(text) = 5 => text[5] \in {"q", "r", "b", "n"}

ColorOf(piece) == IF IsUpper(piece) THEN "white" ELSE "black"

\* Some piece of the given colour has (row, col) among the destinations
\* getValidMovesForBoard returns for it.
HasMoveOnto(env, boardState, row, col, color) ==
    \E r \in Idx, c \in Idx :
        /\ Truthy(Sq(boardState, r, c))
        /\ ColorOf(Sq(boardState, r, c)) = color
        /\ LET moves == getValidMovesForBoard(env, boardState, r, c)
           IN  \E i \in 1..Len(moves) : moves[i][1] = row /\ moves[i][2] = col

\* C31: on the board of every render, for every square that holds a piece
\* and for the colour that piece does not have, isSquareUnderAttack answers
\* true exactly when getValidMovesForBoard returns that square for some
\* piece of the colour.
C31_AttackScanAgreesWithMoves ==
    \A row \in Idx, col \in Idx :
        Truthy(Sq(board, row, col)) =>
            LET color == Other(ColorOf(Sq(board, row, col)))
            IN  isSquareUnderAttack(board, row, col, color)
                    <=> HasMoveOnto(CurrentEnv, board, row, col, color)

\* The white queen on d4 is selected and is offered the capture of the black
\* pawn three squares up its file, which the scan reports as attacked.
C31_QueenAttacksAlongFile ==
    /\ lastOp = "select"
    /\ selectedSquare = <<4, 3>>
    /\ Sq(board, 4, 3) = "Q"
    /\ Sq(board, 1, 3) = "p"
    /\ isSquareUnderAttack(board, 1, 3, "white")
    /\ \E i \in 1..Len(validMoves) : validMoves[i] = <<1, 3>>

\* The squares strictly between (r, c) and (row, col) on a common row,
\* column or diagonal are all empty.
ClearBetween(boardState, r, c, row, col) ==
    LET rowDir == IF row > r THEN 1 ELSE IF row < r THEN -1 ELSE 0
        colDir == IF col > c THEN 1 ELSE IF col < c THEN -1 ELSE 0
        far == IF Abs(row - r) > Abs(col - c) THEN Abs(row - r) ELSE Abs(col - c)
    IN  \A i \in 1..(far - 1) : Sq(boardState, r + rowDir * i, c + colDir * i) = ""

\* (row, col) lies on a ray of the rook, bishop or queen on (r, c).
OnRayOf(pieceType, r, c, row, col) ==
    /\ <<r, c>> # <<row, col>>
    /\ \/ pieceType \in {"r", "q"} /\ (r = row \/ c = col)
       \/ pieceType \in {"b", "q"} /\ Abs(r - row) = Abs(c - col)

\* C32: on the board of every render, every destination getValidMovesForBoard
\* returns for a piece is on the board and holds no piece of the mover's
\* colour; a rook, bishop or queen gets only squares of its rays with nothing
\* between, and gets every enemy piece that ends a ray.
C32_DestinationsOnBoardAndNotOwn ==
    \A r \in Idx, c \in Idx :
        Truthy(Sq(board, r, c)) =>
            LET piece == Sq(board, r, c)
                pieceType == toLowerCase(piece)
                moves == getValidMovesForBoard(CurrentEnv, board, r, c)
            IN  /\ \A i \in 1..Len(moves) :
                       /\ moves[i][1] \in Idx /\ moves[i][2] \in Idx
                       /\ LET target == Sq(board, moves[i][1], moves[i][2])
                          IN  Truthy(target) => ColorOf(target) # ColorOf(piece)
                       /\ pieceType \in {"r", "b", "q"} =>
                              /\ OnRayOf(pieceType, r, c, moves[i][1], moves[i][2])
                              /\ ClearBetween(board, r, c, moves[i][1], moves[i][2])
                /\ pieceType \in {"r", "b", "q"} =>
                       \A row \in Idx, col \in Idx :
                           (/\ OnRayOf(pieceType, r, c, row, col)
                            /\ ClearBetween(board, r, c, row, col)
                            /\ Truthy(Sq(board, row, col))
                            /\ ColorOf(Sq(board, row, col)) # ColorOf(piece)) =>
                               \E i \in 1..Len(moves) : moves[i] = <<row, col>>

\* C33: on the board of every render, every move getValidMovesForBoard
\* returns for a pawn goes one row forward, or two from the pawn's home rank
\* on its own file; on its own file it lands on an empty square, having
\* passed only empty squares; off its file it goes to the neighbouring file,
\* onto an enemy piece or onto the en passant target.
C33_PawnMovesFollowRules ==
    \A r \in Idx, c \in Idx :
        toLowerCase(Sq(board, r, c)) = "p" =>
            LET isWhite == IsUpper(Sq(board, r, c))
                direction == IF isWhite THEN -1 ELSE 1
                moves == getValidMovesForBoard(CurrentEnv, board, r, c)
            IN  \A i \in 1..Len(moves) :
                    LET toRow == moves[i][1]
                        toCol == moves[i][2]
                        target == At(board, toRow, toCol)
                    IN  IF toCol = c
                        THEN /\ target = ""
                             /\ \/ toRow = r + direction
                                \/ /\ toRow = r + 2 * direction
                                   /\ r = (IF isWhite THEN 6 ELSE 1)
                                   /\ At(board, r + direction, c) = ""
                        ELSE /\ toRow = r + direction
                             /\ Abs(toCol - c) = 1
                             /\ \/ Truthy(target) /\ IsUpper(target) # isWhite
                                \/ <<toRow, toCol>> = enPassantTarget

\* The white pawn on b2 is selected and is offered both advances and the
\* capture of the black pawn on a3.
C33_HomeRankPawnSelected ==
    /\ lastOp = "select"
    /\ selectedSquare = <<6, 1>>
    /\ Sq(board, 6, 1) = "P"
    /\ Sq(board, 5, 0) = "p"
    /\ \A move \in {<<5, 1>>, <<4, 1>>, <<5, 0>>} :
           \E i \in 1..Len(validMoves) : validMoves[i] = move

\* C34: in AI mode, when the 500 ms timer of a white move runs
\* getStockfishMove right after that move, the FEN it sends to the worker is
\* the one of the board after the move with black to move.
C34_EngineGetsPositionAfterMove ==
    [][(/\ lastOp = "movePiece"
        /\ lastOp' = "getStockfishMove"
        /\ gameMode = "ai"
        /\ stockfishRef) => sentFen' = boardToFEN(board, "black")]_vars

\* C35: the array INITIAL_BOARD always has the contents it was written with;
\* a step that only reads the board (a selection with its legality filter,
\* getStockfishMove with its boardToFEN, a message of the worker, a lookup
\* that settles, each with the notation rendered after it) leaves the board
\* as it is; and the render whose movePiece made a move, kept alive by the
\* timer it set, still holds the board from before the move.
C35_GivenBoardsAreNotModified ==
    [][/\ initialBoardArray' = INITIAL_BOARD
       /\ lastOp' \in {"select", "getStockfishMove", "parseStockfishEval", "uciok",
                       "fetchOpeningInfo", "setGameMode"} => board' = board
       /\ (lastOp' = "movePiece" /\ Len(sfTimers') > Len(sfTimers)) =>
              sfTimers'[Len(sfTimers')].board = board]_vars

\* "New Game" after a move: the board is set to INITIAL_BOARD again while the
\* lookup of the move is still pending.
C35_ResetAfterMove ==
    /\ lastOp = "resetGame"
    /\ fetches # <<>>
    /\ board = INITIAL_BOARD
    /\ initialBoardArray = INITIAL_BOARD

\* C36: in every state, with no square selected no moves are offered, and a
\* selected square holds a piece of the side to move on the current board
\* and the moves offered are getValidMoves of that square.
C36_SelectionMatchesPosition ==
    IF selectedSquare = Null THEN validMoves = <<>>
    ELSE /\ isCurrentPlayerPiece(Sq(board, selectedSquare[1], selectedSquare[2]))
         /\ validMoves = getValidMoves(selectedSquare[1], selectedSquare[2])

\* C37: once no lookup is in flight, loadingOpening is false and the
\* statistics shown, if any, are those of the move list requested last,
\* which after a move is the move history.
C37_ShownOpeningIsLatest ==
    fetches = <<>> =>
        /\ loadingOpening = FALSE
        /\ (openingInfo # Null /\ moveHistory # <<>> /\ Len(moveHistory) <= 20) =>
               openingInfo = moveHistory

====
